---- MODULE Spec2Model ----
(***************************************************************************)
(* konstruct: source resolution and synchronization engine.                *)
(*                                                                         *)
(* The module holds several specifications over one set of variables:      *)
(*   SpecGit   cloneRepo / attemptClone / cleanupTempDir      (core/git.ts) *)
(*   SpecSync  install, update check and update of skills and settings     *)
(*             (core/installer.ts, core/settings-installer.ts,             *)
(*              cli/commands/update.tsx)                                   *)
(*   SpecBatch the install and update commands over a manifest             *)
(*             (cli/commands/install.tsx, cli/commands/update.tsx)         *)
(*   SpecConc  two engine operations of one process, interleaved           *)
(*   SpecCopy  copyToAll applied repeatedly           (core/installer.ts)  *)
(*   SpecMerge deepMerge on JSON objects                 (utils/merge.ts)  *)
(*   SpecApply applySettings, merge and replace                            *)
(*             (core/settings-installer.ts)                                *)
(*   SpecDiff  diffHashes on pairs of maps                  (utils/fs.ts)  *)
(*   SpecHash  hashDirectory on directories                 (utils/fs.ts)  *)
(*   SpecDiscover discoverSkills / discoverSettings   (core/discover.ts)   *)
(*   SpecManifest addSkillToManifest / removeSkillFromManifest             *)
(*             (core/manifest.ts, core/settings-manifest.ts)               *)
(*   SpecAgents the agents of an install       (core/installer.ts)         *)
(*   SpecParse parseSource and serializeSource                             *)
(*             (core/source-parser.ts, cli/commands/add.tsx)               *)
(*   SpecLocal an install from a file: source       (core/installer.ts)    *)
(*   SpecRemove the add and remove commands          (commands/remove.tsx)  *)
(* A variable a specification does not use keeps its initial value.        *)
(***************************************************************************)
EXTENDS Integers, Sequences, FiniteSets, TLC

VARIABLES
    disk,       \* set of paths (character sequences) that exist on disk
    gitCall,    \* record of the last core/git.ts call and what it did
    kind,       \* "skill" or "settings": which of the two engines the run uses
    fs,         \* unit directories: location -> [present, files]
    remote,     \* the remote repository: its units, in discovery order
    projectCfg, \* konstruct.config.json of the working directory
    last,       \* the last engine call: its arguments, what it did, its result
    batch,      \* a command working through a manifest: entries left, results
    procs,      \* engine operations in progress at the same time
    calc        \* a call of a pure function: its arguments and its result

\* the variables of the commands, of concurrent operations and of pure calls
aux == <<batch, procs, calc>>

vars == <<disk, gitCall, kind, fs, remote, projectCfg, last, aux>>

NoBatch == [st |-> "none"]
NoProcs == <<>>
NoCalc == [fn |-> "none"]

\* "no path": the value of an absent or undefined path
NoPath == <<>>

\* Largest number of temporary clone directories left alive by earlier calls
\* when a new clone starts.
MaxTmp == 1

(***************************************************************************)
(* Paths are strings, modelled as sequences of one-character strings, so    *)
(* that String.prototype.startsWith is a real prefix test.                 *)
(***************************************************************************)
SEP == <<"/">>

\* os.tmpdir(): "/t"
TmpRoot == <<"/", "t">>

StartsWith(s, p) ==
    /\ Len(p) <= Len(s)
    /\ SubSeq(s, 1, Len(p)) = p

\* path.join(a, name)
Join(a, name) == a \o SEP \o name

\* p is e or lies below e in the directory tree
UnderOrEqual(p, e) == p = e \/ StartsWith(p, e \o SEP)

\* the i-th name mkdtemp can produce below the temp root: k, kk, kkk, ...
TmpName(i) == [j \in 1..i |-> "k"]
TmpDir(i)  == Join(TmpRoot, TmpName(i))
TmpDirs    == { TmpDir(i) : i \in 1..(MaxTmp + 2) }

\* a mkdtemp that hands out the same name every time
FreshTmp_fixed(d, used) == TmpDir(1)

\* mkdtemp(join(tmpdir(), 'konstruct-')): a directory that does not exist yet
\* and was not handed out earlier in the same call.
FreshTmp(d, used) ==
    TmpDir(CHOOSE i \in 1..(MaxTmp + 2) :
              /\ TmpDir(i) \notin (d \cup used)
              /\ \A j \in 1..(i - 1) : TmpDir(j) \in (d \cup used))

\* directories outside the temp root, and a sibling that shares its name prefix
HomeDir    == <<"/", "h">>
SiblingDir == <<"/", "t", "x">>
\* a symbolic link outside the temp root whose target is the first temp dir
LinkPath   == <<"/", "l">>
LinkTarget(p) == IF p = LinkPath THEN TmpDir(1) ELSE NoPath

\* the working tree a clone puts into its directory
TreeOf(dir) == Join(dir, <<"s">>)

AllPaths == TmpDirs \cup {TreeOf(TmpDir(1)), TmpRoot, HomeDir, SiblingDir, LinkPath}

\* fs.rm(dir, {recursive: true, force: true}): a link is unlinked, a directory
\* goes with everything below it, a missing path is not an error.
Rm(d, dir) ==
    IF LinkTarget(dir) # NoPath
    THEN d \ {dir}
    ELSE { p \in d : ~UnderOrEqual(p, dir) }

\* fs.realpathSync(p): NoPath stands for the ENOENT it throws
RealPath(d, p) ==
    IF p \notin d THEN NoPath
    ELSE IF LinkTarget(p) # NoPath
         THEN (IF LinkTarget(p) \in d THEN LinkTarget(p) ELSE NoPath)
         ELSE p

(***************************************************************************)
(* core/git.ts                                                             *)
(***************************************************************************)
\* A URL is kept as its parts: "https://github.com/o/r.git" is
\* [proto |-> "https://", host |-> "github.com", path |-> "o/r.git"] and
\* "git@github.com:o/r.git" is [proto |-> "git@", ...]. The path is never empty.
NoUrl == [proto |-> "", host |-> "", path |-> ""]

Urls ==
    { [proto |-> "https://", host |-> h, path |-> "o/r.git"] :
          h \in {"github.com", "gitlab.com", "example.com"} }
    \cup { [proto |-> "http://", host |-> "github.com", path |-> "o/r.git"],
           [proto |-> "git@", host |-> "github.com", path |-> "o/r.git"] }

\* httpsToSshUrl without the host test
httpsToSshUrl_anyHost(url) ==
    IF url.proto = "https://"
    THEN [proto |-> "git@", host |-> url.host, path |-> url.path]
    ELSE NoUrl

\* /^https:\/\/(github\.com|gitlab\.com)\/(.+)$/  ->  git@<host>:<path>
httpsToSshUrl(url) ==
    IF /\ url.proto = "https://"
       /\ url.host \in {"github.com", "gitlab.com"}
       /\ url.path # ""
    THEN [proto |-> "git@", host |-> url.host, path |-> url.path]
    ELSE NoUrl

\* The numbered steps of the guide, as the set of step kinds it contains.
formatAuthTroubleshootingGuide(url, transport) ==
    {"verify"}
    \cup (IF transport \in {"https", "both"} THEN {"gh-auth"} ELSE {})
    \cup (IF transport \in {"ssh", "both"} THEN {"ssh-key"} ELSE {})
    \cup (IF transport = "both" THEN {"sso"} ELSE {})

\* What git.clone can do: succeed, or fail with a message that carries any of
\* the timeout and authentication signatures attemptClone looks for.
Signatures == {"timed out", "Authentication failed"}
CloneOutcomes ==
    {[ok |-> TRUE, sig |-> {}]} \cup { [ok |-> FALSE, sig |-> s] : s \in SUBSET Signatures }

NoError == [kind |-> "none", isTimeout |-> FALSE, isAuthError |-> FALSE, guide |-> {}]

GitCloneError(guide, isTimeout, isAuthError) ==
    [kind |-> "GitCloneError", isTimeout |-> isTimeout, isAuthError |-> isAuthError,
     guide |-> guide]

\* attemptClone without the rm of its catch block
attemptClone_noRm(d, used, url, originalUrl, transportsTried, out) ==
    LET tempDir == FreshTmp(d, used)
    IN  [ok |-> out.ok, dir |-> IF out.ok THEN tempDir ELSE NoPath,
         err |-> IF out.ok THEN NoError
                 ELSE GitCloneError({}, "timed out" \in out.sig,
                                    ("timed out" \notin out.sig)
                                        /\ "Authentication failed" \in out.sig),
         disk |-> d \cup {tempDir, TreeOf(tempDir)},
         att |-> [url |-> url, tried |-> transportsTried, dir |-> tempDir,
                  ok |-> out.ok, sig |-> out.sig, diskBefore |-> d]]

\* One clone attempt into a fresh temp directory; on failure the directory is
\* removed and a GitCloneError is thrown (timeout is tested before auth).
attemptClone(d, used, url, originalUrl, transportsTried, out) ==
    LET tempDir == FreshTmp(d, used)
        att == [url |-> url, tried |-> transportsTried, dir |-> tempDir,
                ok |-> out.ok, sig |-> out.sig, diskBefore |-> d]
        isTimeout   == "timed out" \in out.sig
        isAuthError == "Authentication failed" \in out.sig
    IN  IF out.ok
        THEN [ok |-> TRUE, dir |-> tempDir, err |-> NoError,
              disk |-> d \cup {tempDir, TreeOf(tempDir)}, att |-> att]
        ELSE [ok |-> FALSE, dir |-> NoPath,
              err |-> IF isTimeout
                      THEN GitCloneError(
                               formatAuthTroubleshootingGuide(originalUrl, transportsTried),
                               TRUE, FALSE)
                      ELSE IF isAuthError
                      THEN GitCloneError(
                               formatAuthTroubleshootingGuide(originalUrl, transportsTried),
                               FALSE, TRUE)
                      ELSE GitCloneError({}, FALSE, FALSE),
              disk |-> Rm(d \cup {tempDir}, tempDir), att |-> att]

\* cloneRepo that retries over SSH after any failure, not only an auth failure
cloneRepo_retryAlways(d, url, ssh, o1, o2) ==
    LET a1 == attemptClone(d, {}, url, url, "https", o1)
        a2 == attemptClone(a1.disk, {a1.att.dir}, httpsToSshUrl(url), url, "both", o2)
    IN  IF a1.ok \/ httpsToSshUrl(url) = NoUrl
        THEN [ok |-> a1.ok, dir |-> a1.dir, err |-> a1.err, disk |-> a1.disk,
              attempts |-> <<a1.att>>]
        ELSE [ok |-> a2.ok, dir |-> a2.dir, err |-> a2.err, disk |-> a2.disk,
              attempts |-> <<a1.att, a2.att>>]

\* cloneRepo whose explicit SSH mode falls back like the default mode
cloneRepo_sshFallback(d, url, ssh, o1, o2) ==
    LET a1 == attemptClone(d, {}, url, url, "https", o1)
        a2 == attemptClone(a1.disk, {a1.att.dir}, httpsToSshUrl(url), url, "both", o2)
    IN  IF a1.ok \/ ~a1.err.isAuthError \/ httpsToSshUrl(url) = NoUrl
        THEN [ok |-> a1.ok, dir |-> a1.dir, err |-> a1.err, disk |-> a1.disk,
              attempts |-> <<a1.att>>]
        ELSE [ok |-> a2.ok, dir |-> a2.dir, err |-> a2.err, disk |-> a2.disk,
              attempts |-> <<a1.att, a2.att>>]

\* what cloneRepo hands back after attempt a: its directory or its error, and
\* the attempts made, in order
CloneResult(a, before) ==
    [ok |-> a.ok, dir |-> a.dir, err |-> a.err, disk |-> a.disk,
     attempts |-> Append(before, a.att)]

\* the catch block of cloneRepo's default mode, a1 being the HTTPS attempt
cloneRepoCatch(url, o2, a1) ==
    IF a1.ok \/ ~a1.err.isAuthError
    THEN CloneResult(a1, <<>>)
    ELSE IF httpsToSshUrl(url) = NoUrl
    THEN [ok |-> FALSE, dir |-> NoPath,
          err |-> GitCloneError(formatAuthTroubleshootingGuide(url, "https"),
                                FALSE, TRUE),
          disk |-> a1.disk, attempts |-> <<a1.att>>]
    ELSE CloneResult(attemptClone(a1.disk, {a1.att.dir}, httpsToSshUrl(url), url,
                                  "both", o2),
                     <<a1.att>>)

\* cloneRepo(url, ref, {ssh}); o1 and o2 are what git.clone does on the first
\* and on the second attempt. The result carries the attempts made, in order.
cloneRepo(d, url, ssh, o1, o2) ==
    IF ssh
    THEN CloneResult(attemptClone(d, {}, IF httpsToSshUrl(url) # NoUrl
                                         THEN httpsToSshUrl(url) ELSE url,
                                  url, "ssh", o1),
                     <<>>)
    ELSE cloneRepoCatch(url, o2, attemptClone(d, {}, url, url, "https", o1))

\* cleanupTempDir(dir): raised is TRUE when it throws (ENOENT from realpathSync,
\* or the outside-of-temp-directory error).
cleanupTempDir(d, dir) ==
    LET normalizedDir    == RealPath(d, dir)
        normalizedTmpDir == RealPath(d, TmpRoot)
    IN  IF normalizedDir = NoPath \/ normalizedTmpDir = NoPath
        THEN [raised |-> TRUE, disk |-> d]
        ELSE IF /\ ~StartsWith(normalizedDir, normalizedTmpDir \o SEP)
                /\ normalizedDir # normalizedTmpDir
        THEN [raised |-> TRUE, disk |-> d]
        ELSE [raised |-> FALSE, disk |-> Rm(d, dir)]

(***************************************************************************)
(* SpecGit: calls of cloneRepo and cleanupTempDir on a small disk.         *)
(***************************************************************************)
NoGitCall == [op |-> "none"]

InitGit ==
    /\ disk = {TmpRoot, HomeDir, SiblingDir, LinkPath}
    /\ gitCall = NoGitCall
    /\ kind = "skill"
    /\ fs = <<>>
    /\ remote = <<>>
    /\ projectCfg = [st |-> "missing", agents |-> <<>>]
    /\ last = [op |-> "none"]
    /\ batch = NoBatch
    /\ procs = NoProcs
    /\ calc = NoCalc

\* A caller clones; a successful clone leaves its directory to the caller.
CloneRepoCall ==
    /\ TmpRoot \in disk
    /\ Cardinality(disk \cap TmpDirs) <= MaxTmp
    /\ \E url \in Urls, ssh \in BOOLEAN, o1 \in CloneOutcomes, o2 \in CloneOutcomes :
          LET r == cloneRepo(disk, url, ssh, o1, o2)
          IN  /\ disk' = r.disk
              /\ gitCall' = [op |-> "cloneRepo", url |-> url, ssh |-> ssh,
                             ok |-> r.ok, dir |-> r.dir, err |-> r.err,
                             attempts |-> r.attempts, diskBefore |-> disk]
              /\ UNCHANGED <<kind, fs, remote, projectCfg, last, aux>>

\* A caller asks for the removal of some path.
CleanupTempDirCall ==
    \E p \in AllPaths :
        LET r == cleanupTempDir(disk, p)
        IN  /\ disk' = r.disk
            /\ gitCall' = [op |-> "cleanupTempDir", path |-> p, raised |-> r.raised,
                           diskBefore |-> disk]
            /\ UNCHANGED <<kind, fs, remote, projectCfg, last, aux>>

NextGit == CloneRepoCall \/ CleanupTempDirCall

SpecGit == InitGit /\ [][NextGit]_vars

(***************************************************************************)
(* Properties of core/git.ts, checked under SpecGit.                       *)
(***************************************************************************)
\* the failure classes of a clone attempt (timeout is tested first)
AttemptTimedOut(a) == ~a.ok /\ "timed out" \in a.sig
AttemptAuthFailed(a) ==
    ~a.ok /\ "timed out" \notin a.sig /\ "Authentication failed" \in a.sig

WellKnownHttps(url) ==
    url.proto = "https://" /\ url.host \in {"github.com", "gitlab.com"}

SshForm(url) == [proto |-> "git@", host |-> url.host, path |-> url.path]

\* C3: cloneRepo with ssh unset or false. The first attempt uses the given URL;
\* a second attempt, on the SSH form of the URL, is made if and only if the
\* first one failed with an authentication-class error and the URL is an https
\* URL on github.com or gitlab.com; there are never more than two attempts, and
\* a first-attempt timeout or other failure is surfaced without a retry.
C3_HttpsFirstSshRetryOnlyOnAuth ==
    (gitCall.op = "cloneRepo" /\ ~gitCall.ssh) =>
        LET a == gitCall.attempts
        IN  /\ Len(a) \in {1, 2}
            /\ a[1].url = gitCall.url
            /\ a[1].tried = "https"
            /\ (Len(a) = 2) <=> (AttemptAuthFailed(a[1]) /\ WellKnownHttps(gitCall.url))
            /\ (Len(a) = 2) => (a[2].url = SshForm(gitCall.url) /\ a[2].tried = "both")
            /\ (~a[1].ok /\ ~AttemptAuthFailed(a[1])) =>
                   (Len(a) = 1 /\ ~gitCall.ok /\ gitCall.err.kind = "GitCloneError"
                      /\ gitCall.err.isTimeout = AttemptTimedOut(a[1]))

C3_Witness ==
    /\ gitCall.op = "cloneRepo" /\ ~gitCall.ssh
    /\ Len(gitCall.attempts) = 2
    /\ gitCall.ok

C5_FailedAttemptLeavesNoTempDir ==
    gitCall.op = "cloneRepo" =>
        LET a == gitCall.attempts
        IN  /\ \A i \in 1..Len(a) :
                  ~a[i].ok =>
                     /\ a[i].dir \notin disk
                     /\ TreeOf(a[i].dir) \notin disk
                     /\ i < Len(a) => a[i].dir \notin a[i + 1].diskBefore
            /\ ~gitCall.ok => disk = gitCall.diskBefore

C5_Witness ==
    /\ gitCall.op = "cloneRepo"
    /\ Len(gitCall.attempts) = 2
    /\ ~gitCall.attempts[1].ok /\ ~gitCall.attempts[2].ok
    /\ gitCall.diskBefore \cap TmpDirs # {}

StrictlyInsideTmp(p) == StartsWith(p, TmpRoot \o SEP)

\* C6: cleanupTempDir deletes only when the given path is a proper descendant
\* of the temp root; for every other path it raises and deletes nothing.
C6_CleanupOnlyStrictlyInsideTmp ==
    gitCall.op = "cleanupTempDir" =>
        \/ StrictlyInsideTmp(gitCall.path)
        \/ (gitCall.raised /\ disk = gitCall.diskBefore)


\* ---------------------------------------------------------------- JSON
\* A JSON value is a record [t, s, items]: t its type, s the text of a number,
\* of a string or of a member's key, items the items of an array or the
\* members of an object in their order. A member is such a record as well,
\* of type "mem", its value being its one item.
JNull == [t |-> "null", s |-> "", items |-> <<>>]
JNum(n) == [t |-> "num", s |-> n, items |-> <<>>]
JStr(s) == [t |-> "str", s |-> s, items |-> <<>>]
JArr(items) == [t |-> "arr", s |-> "", items |-> items]
JObj(members) == [t |-> "obj", s |-> "", items |-> members]
Mem(key, value) == [t |-> "mem", s |-> key, items |-> <<value>>]

\* Array.isArray(val), isPlainObject(val)
IsArray(val) == val.t = "arr"
isPlainObject(val) == val.t = "obj"

\* obj[key] (undefined: NoValue), key in obj
NoValue == [t |-> "undefined", s |-> "", items |-> <<>>]
HasKey(obj, key) == \E i \in 1..Len(obj.items) : obj.items[i].s = key
ValueAt(obj, key) ==
    IF HasKey(obj, key)
    THEN obj.items[CHOOSE i \in 1..Len(obj.items) : obj.items[i].s = key].items[1]
    ELSE NoValue

\* result[key] = value: in place for a key the object has, else at the end
Put(obj, key, value) ==
    IF HasKey(obj, key)
    THEN JObj([i \in 1..Len(obj.items) |->
                  IF obj.items[i].s = key THEN Mem(key, value) ELSE obj.items[i]])
    ELSE JObj(Append(obj.items, Mem(key, value)))

\* JSON.stringify(value): the members of an object in their order
RECURSIVE stringify(_)
RECURSIVE stringifyItems(_, _)
stringifyItems(items, i) ==
    IF i > Len(items) THEN ""
    ELSE (IF i > 1 THEN "," ELSE "") \o stringify(items[i])
         \o stringifyItems(items, i + 1)
stringify(value) ==
    IF value.t = "null" THEN "null"
    ELSE IF value.t = "num" THEN value.s
    ELSE IF value.t = "str" THEN "\"" \o value.s \o "\""
    ELSE IF value.t = "mem" THEN "\"" \o value.s \o "\":" \o stringify(value.items[1])
    ELSE IF value.t = "arr" THEN "[" \o stringifyItems(value.items, 1) \o "]"
    ELSE "{" \o stringifyItems(value.items, 1) \o "}"

\* the key under which the deduplication remembers an item:
\* typeof item === 'object' && item !== null ? JSON.stringify(item) : item
SeenKey(item) ==
    IF item.t \in {"obj", "arr"} THEN JStr(stringify(item)) ELSE item

\* [...tgtVal, ...srcVal] without the items whose key was seen before
Deduped(merged) ==
    SelectSeq([i \in 1..Len(merged) |->
                  [item |-> merged[i],
                   first |-> \A j \in 1..(i - 1) :
                                SeenKey(merged[j]) # SeenKey(merged[i])]],
              LAMBDA x : x.first)

DedupedItems(merged) == [i \in 1..Len(Deduped(merged)) |-> Deduped(merged)[i].item]

\* deepMerge(target, source): result = {...target}, then key by key of source
RECURSIVE deepMerge(_, _)
RECURSIVE mergeKeys(_, _, _)
mergeKeys(result, source, i) ==
    IF i > Len(source.items) THEN result
    ELSE mergeKeys(
           Put(result, source.items[i].s,
               IF /\ IsArray(source.items[i].items[1])
                  /\ IsArray(ValueAt(result, source.items[i].s))
               THEN JArr(DedupedItems(ValueAt(result, source.items[i].s).items
                                      \o source.items[i].items[1].items))
               ELSE IF /\ isPlainObject(source.items[i].items[1])
                       /\ isPlainObject(ValueAt(result, source.items[i].s))
               THEN deepMerge(ValueAt(result, source.items[i].s),
                              source.items[i].items[1])
               ELSE source.items[i].items[1]),
           source, i + 1)
deepMerge(target, source) == mergeKeys(target, source, 1)

\* the JSON objects the model's files hold: the payloads of the packages, the
\* settings a project has, and what merging them gives
Payloads == {"p1", "p2", "f1", "f2", "old"}
PayloadData(payload) == JObj(<<Mem("k", JStr(payload))>>)

EmptyObject == JObj(<<>>)
ExistingSettings == JObj(<<Mem("a", JArr(<<JNum("1"), JNum("2")>>)),
                           Mem("b", JObj(<<Mem("x", JNum("1"))>>))>>)
SourceSettings == JObj(<<Mem("a", JArr(<<JNum("2"), JNum("3")>>)),
                         Mem("b", JObj(<<Mem("y", JNum("2"))>>)),
                         Mem("c", JNum("5"))>>)
HookObject == JObj(<<Mem("x", JNum("1"))>>)
HookSettings == JObj(<<Mem("a", JArr(<<HookObject>>))>>)
HookText == JObj(<<Mem("a", JArr(<<JStr(stringify(HookObject))>>))>>)
ScalarSettings == JObj(<<Mem("a", JNum("1")), Mem("d", JNull)>>)
NestedSettings == JObj(<<Mem("b", JObj(<<Mem("x", JObj(<<Mem("p", JArr(<<JNum("1")>>))>>))>>))>>)
NestedSource == JObj(<<Mem("b", JObj(<<Mem("x", JObj(<<Mem("p", JArr(<<JNum("1"), JNum("4")>>))>>))>>)),
                       Mem("a", JObj(<<Mem("z", JNum("1"))>>))>>)
RepeatedItems == JObj(<<Mem("a", JArr(<<JNum("1"), JNum("1"), JStr("1")>>)),
                        Mem("c", JArr(<<JNum("5"), JNum("5")>>))>>)
ListOfLists == JObj(<<Mem("a", JArr(<<JArr(<<JNum("1")>>), HookObject>>))>>)

JsonObjects ==
    { EmptyObject, ExistingSettings, SourceSettings, HookSettings, HookText,
      ScalarSettings, NestedSettings, NestedSource, RepeatedItems, ListOfLists }
    \cup { PayloadData(p) : p \in {"p1", "f1"} }

JsonDocs ==
    LET once == { deepMerge(a, b) : a, b \in JsonObjects }
    IN  JsonObjects \cup { PayloadData(p) : p \in Payloads }
        \cup once \cup { deepMerge(a, b) : a \in once, b \in JsonObjects }

\* a file's text is a string; JSON.stringify(data, null, 2) + '\n' writes the
\* text of data, and JSON.parse reads a text back to the value it is the text
\* of, or throws
JsonText(data) == stringify(data)
NotJson == "not json"
ParseTable == { [text |-> JsonText(v), value |-> v] : v \in JsonDocs }
ParseJson(content) ==
    IF \E e \in ParseTable : e.text = content
    THEN [threw |-> FALSE, value |-> (CHOOSE e \in ParseTable : e.text = content).value]
    ELSE [threw |-> TRUE, value |-> NoValue]

(***************************************************************************)
(* The synchronization engine: core/installer.ts and                        *)
(* core/settings-installer.ts. The two files are the same code over         *)
(* different markers and directories; kind tells which one runs.            *)
(***************************************************************************)
\* A directory tree is the set of its regular files, <<relative path, content>>,
\* a relative path being the sequence of its segments.
Marker(k) == IF k = "skill" THEN "SKILL.md" ELSE "SETTINGS.md"

\* A unit directory: its marker file, whose frontmatter may name a strategy
\* ("" for none), and one JSON file, holding {"k": payload}.
UnitFiles(k, payload, strategy) ==
    { <<<<Marker(k)>>, <<"frontmatter", strategy>>>>,
      <<<<"data.json">>, JsonText(PayloadData(payload))>> }

Absent == [present |-> FALSE, files |-> {}]
Present(files) == [present |-> TRUE, files |-> files]

\* directories of a repository in which a unit can sit
RootDir == <<>>
DirA == <<"a">>
DirB == <<"b">>

Unit(name, dir, files) == [name |-> name, dir |-> dir, files |-> files]

\* The states of the remote repository: the units discovery finds in it, in
\* the order in which the directory walk meets them.
Repos(k) ==
    LET f1 == UnitFiles(k, "p1", "")
        f2 == UnitFiles(k, "p2", IF k = "settings" THEN "merge" ELSE "")
    IN  { <<>>,
          <<Unit("u", DirA, f1)>>,
          <<Unit("u", DirA, f2)>>,
          <<Unit("v", DirA, f1)>>,
          <<Unit("v", DirB, f1), Unit("u", DirA, f1)>>,
          <<Unit("v", DirA, f1), Unit("w", DirB, f1)>>,
          <<Unit("u", RootDir, f1)>>,
          <<Unit("u", DirA, f1), Unit("u", DirB, f2)>> }

\* git clone leaves its own bookkeeping in <tempDir>/.git; the index in it
\* records per-clone stat data, so its content is not a function of the
\* repository content: each clone draws a stamp.
GitStamps == {"g1", "g2"}
GitFiles(stamp) == { <<<<".git", "index">>, stamp>> }

Prefixed(dir, files) == { <<dir \o f[1], f[2]>> : f \in files }

\* The files below unit.path in a clone of repo: the unit's own files, and for
\* a unit at the repository root the whole clone, .git included.
FilesAt(repo, unit, stamp) ==
    IF unit.dir = RootDir
    THEN GitFiles(stamp)
         \cup UNION { Prefixed(repo[i].dir, repo[i].files) : i \in 1..Len(repo) }
    ELSE unit.files

\* ---------------------------------------------------------------- config
CfgMissing == [st |-> "missing", agents |-> <<>>]
CfgInvalid == [st |-> "invalid", agents |-> <<>>]
CfgOk(agents) == [st |-> "ok", agents |-> agents]

\* readConfig(cwd, global): null for a missing file, throws on an invalid one.
\* No global config file exists in ~/.konstruct.
readConfig(global) ==
    IF global THEN [threw |-> FALSE, cfg |-> CfgMissing]
    ELSE [threw |-> projectCfg.st = "invalid", cfg |-> projectCfg]

\* getEffectiveConfig(false): the project config, else the global one, else
\* { version: 1, agents: ['claude'] }
getEffectiveConfig ==
    LET project == readConfig(FALSE)
        g == readConfig(TRUE)
    IN  IF project.threw THEN [threw |-> TRUE, agents |-> <<>>]
        ELSE IF project.cfg.st = "ok" THEN [threw |-> FALSE, agents |-> project.cfg.agents]
        ELSE IF g.threw THEN [threw |-> TRUE, agents |-> <<>>]
        ELSE IF g.cfg.st = "ok" THEN [threw |-> FALSE, agents |-> g.cfg.agents]
        ELSE [threw |-> FALSE, agents |-> <<"claude">>]

\* getAgentSkillDirs / getAgentSettingsDirs, project-local: join(cwd, skillsDir)
\* (<<"cwd", slug>> stands for cwd/.<slug>/skills, or cwd/.<slug>/settings).
AgentDir(slug) == <<"cwd", slug>>
getAgentDirs(agents) == [i \in 1..Len(agents) |-> AgentDir(agents[i])]

\* the --path a caller may give: the cursor directory
CustomPath == AgentDir("cursor")

\* InstallOptions / SettingsInstallOptions ("" for no strategy)
Options(k) ==
    { [customPath |-> cp, ssh |-> FALSE, strategy |-> s] :
        cp \in {NoPath, CustomPath},
        s \in IF k = "settings" THEN {"", "replace"} ELSE {""} }

\* resolveInstallDirs(options): [customPath] if given, else the agents' dirs
resolveInstallDirs(options) ==
    IF options.customPath # NoPath
    THEN [threw |-> FALSE, dirs |-> <<options.customPath>>]
    ELSE LET config == getEffectiveConfig
         IN  IF config.threw THEN [threw |-> TRUE, dirs |-> <<>>]
             ELSE [threw |-> FALSE,
                   dirs |-> getAgentDirs(IF Len(config.agents) > 0 THEN config.agents
                                         ELSE <<"claude">>)]

\* ---------------------------------------------------------------- sources
GitHubUrl == [proto |-> "https://", host |-> "github.com", path |-> "o/r.git"]

\* an absent ref (undefined)
NoRef == ""

GitSource(subpath) ==
    [type |-> "github", url |-> GitHubUrl, ref |-> NoRef, subpath |-> subpath]

\* a file: source; its url is a local path
LocalPath == <<"src", "u">>
MissingPath == <<"does", "not", "exist">>
FileSource(path) ==
    [type |-> "file", url |-> [proto |-> "", host |-> "", path |-> path],
     ref |-> NoRef, subpath |-> RootDir]

GitSources == { GitSource(RootDir), GitSource(DirA) }
FileSources == { FileSource(LocalPath), FileSource(MissingPath) }

\* the names a caller asks for
UnitNames == {"u"}

\* the names a manifest has entries for
ManifestNames == {"u", "v"}

\* path.resolve(source.url)
Resolve(url) == url.path

\* the unit directories of the model
\* path.join(dir, skillName), on segment sequences
TargetPath(dir, name) == dir \o <<name>>

\* AGENT_REGISTRY: claude alone has a settingsFile
ClaudeSettingsFile == <<"cwd", "claude", "settings.json">>

Locations ==
    { TargetPath(AgentDir(a), n) : a \in {"claude", "cursor"}, n \in ManifestNames }
    \cup {LocalPath, MissingPath, ClaudeSettingsFile}

\* an exists that always answers yes
exists_always(f, path) == TRUE

\* exists(path)
exists(f, path) == path \in DOMAIN f /\ f[path].present

\* ---------------------------------------------------------------- discover
\* discoverSkills(tempDir, subpath) / discoverSettings: the units of the clone
\* that lie in the search path, in walk order.
InSearchPath(dir, subpath) ==
    Len(subpath) <= Len(dir) /\ SubSeq(dir, 1, Len(subpath)) = subpath

discoverUnits(repo, subpath) ==
    SelectSeq(repo, LAMBDA u : InSearchPath(u.dir, subpath))

NoUnit == [name |-> "", dir |-> <<"none">>, files |-> {}]

\* selection that takes the first discovered unit when the name is not found
selectUnit_firstFallback(units, name) ==
    IF \E i \in 1..Len(units) : units[i].name = name
    THEN units[CHOOSE i \in 1..Len(units) :
                  /\ units[i].name = name
                  /\ \A j \in 1..(i - 1) : units[j].name # name]
    ELSE IF Len(units) >= 1 THEN units[1]
    ELSE NoUnit

\* skills.find((s) => s.name === skillName), else skills[0] if there is exactly
\* one, else nothing
selectUnit(units, name) ==
    IF \E i \in 1..Len(units) : units[i].name = name
    THEN units[CHOOSE i \in 1..Len(units) :
                  /\ units[i].name = name
                  /\ \A j \in 1..(i - 1) : units[j].name # name]
    ELSE IF Len(units) = 1 THEN units[1]
    ELSE NoUnit

Names(units) == [i \in 1..Len(units) |-> units[i].name]

\* ---------------------------------------------------------------- utils/fs.ts
\* createHash('sha256').update(content).digest('hex'): one digest per content
Sha256(content) == <<"sha256", content>>

\* A directory may hold more than regular files that can be read: symbolic
\* links, <<path, what it points to, the content read through it>>, and
\* paths, of files or of directories, that this user may not read.
Tree(files, links, locked) ==
    [present |-> TRUE, files |-> files, links |-> links, locked |-> locked]
LinksOf(dirState) == IF "links" \in DOMAIN dirState THEN dirState.links ELSE {}
LockedOf(dirState) == IF "locked" \in DOMAIN dirState THEN dirState.locked ELSE {}

\* the entries readdir(current) gives: the files, the links, the directories
IsIn(path, current) ==
    Len(path) = Len(current) + 1 /\ SubSeq(path, 1, Len(current)) = current
FilesIn(dirState, current) == { f \in dirState.files : IsIn(f[1], current) }
LinksIn(dirState, current) == { l \in LinksOf(dirState) : IsIn(l[1], current) }
DirsIn(dirState, current) ==
    { SubSeq(e[1], 1, Len(current) + 1) :
        e \in { x \in dirState.files \cup LinksOf(dirState) :
                  /\ Len(x[1]) > Len(current) + 1
                  /\ SubSeq(x[1], 1, Len(current)) = current } }

\* walkAndHash(root, current, out): nothing for a directory readdir fails on;
\* a directory entry is walked, any other entry is read with readFile, which
\* follows a link and throws on a directory, on a missing file and on a file
\* this user may not read
RECURSIVE walkAndHash(_, _)
walkAndHash(dirState, current) ==
    IF ~dirState.present \/ current \in LockedOf(dirState)
    THEN [threw |-> FALSE, map |-> {}]
    ELSE [threw |->
             \/ \E f \in FilesIn(dirState, current) : f[1] \in LockedOf(dirState)
             \/ \E l \in LinksIn(dirState, current) : l[2] # "file"
             \/ \E d \in DirsIn(dirState, current) : walkAndHash(dirState, d).threw,
          map |->
             { <<f[1], Sha256(f[2])>> : f \in FilesIn(dirState, current) }
             \cup { <<l[1], Sha256(l[3])>> :
                      l \in { x \in LinksIn(dirState, current) : x[2] = "file" } }
             \cup UNION { walkAndHash(dirState, d).map :
                            d \in DirsIn(dirState, current) }]

\* hashDirectory(dirPath): the map walkAndHash has filled when it returns
hashDirectory(dirState) == walkAndHash(dirState, <<>>).map

HashKeys(h) == { e[1] : e \in h }

\* a comparison that takes the files of local alone for added and those of
\* remote alone for removed
diffHashes_swapped(local, rem) ==
    [added   |-> { e[1] : e \in { x \in local : x[1] \notin HashKeys(rem) } },
     changed |-> { e[1] : e \in { x \in rem : x[1] \in HashKeys(local) /\ x \notin local } },
     removed |-> { e[1] : e \in { x \in rem : x[1] \notin HashKeys(local) } }]

\* diffHashes(local, remote), the three lists as sets
diffHashes(local, rem) ==
    [added   |-> { e[1] : e \in { x \in rem : x[1] \notin HashKeys(local) } },
     changed |-> { e[1] : e \in { x \in rem : x[1] \in HashKeys(local) /\ x \notin local } },
     removed |-> { e[1] : e \in { x \in local : x[1] \notin HashKeys(rem) } }]


\* ---------------------------------------------------------------- environment
\* What the environment does to one engine call: the outcomes of the clone
\* attempts, the stamp of the clone, and the file-system step that fails, if
\* any ("discover": the directory walk; "mkdir" / "cp": that call for the
\* failAt-th target).
Ok == [ok |-> TRUE, sig |-> {}]
AuthFailure == [ok |-> FALSE, sig |-> {"Authentication failed"}]
OtherFailure == [ok |-> FALSE, sig |-> {}]

Env(o1, o2, stamp, step, failAt) ==
    [o1 |-> o1, o2 |-> o2, stamp |-> stamp, step |-> step, failAt |-> failAt]

CheckEnvs ==
    { Env(Ok, Ok, g, "none", 0) : g \in GitStamps }
    \cup { Env(Ok, Ok, "g1", "discover", 0),
           Env(AuthFailure, Ok, "g1", "none", 0),
           Env(AuthFailure, OtherFailure, "g1", "none", 0) }

LocalEnvs ==
    { Env(Ok, Ok, "g1", "none", 0), Env(Ok, Ok, "g1", "cp", 1),
      Env(Ok, Ok, "g1", "mkdir", 2) }

InstallEnvs ==
    LocalEnvs
    \cup { Env(Ok, Ok, "g1", "discover", 0),
           Env(AuthFailure, Ok, "g1", "none", 0),
           Env(AuthFailure, OtherFailure, "g1", "none", 0) }

\* git clone of a local path that holds a plain directory, not a repository,
\* fails whatever the network does
CloneEnvFor(source, env) ==
    IF source.type = "file"
    THEN [env EXCEPT !.o1 = OtherFailure, !.o2 = OtherFailure]
    ELSE env

\* ---------------------------------------------------------------- copy
\* a source directory: a directory of the clone (its files are given) or a
\* location of the file system
InClone(files) == [tmp |-> TRUE, files |-> files, path |-> NoPath]
OnDisk(path) == [tmp |-> FALSE, files |-> {}, path |-> path]

SourceState(f, src) == IF src.tmp THEN Present(src.files) ELSE f[src.path]

Applied(ok, f, paths, touched) ==
    [ok |-> ok, fs |-> f, paths |-> paths, touched |-> touched]

RECURSIVE copyLoop(_, _, _, _, _, _, _, _)
copyLoop(f, src, name, dirs, i, paths, touched, env) ==
    IF i > Len(dirs)
    THEN Applied(TRUE, f, paths, touched)
    ELSE LET targetPath == TargetPath(dirs[i], name)
             \* rm(targetPath, {recursive, force})
             f1 == [f EXCEPT ![targetPath] = Absent]
             source == SourceState(f1, src)
         IN  IF env.failAt = i /\ env.step = "mkdir"
             THEN Applied(FALSE, f, paths, touched)
             ELSE IF ~source.present \/ (env.failAt = i /\ env.step = "cp")
             THEN Applied(FALSE, f1, paths, touched \cup {targetPath})
             ELSE copyLoop([f1 EXCEPT ![targetPath] = Present(source.files)],
                           src, name, dirs, i + 1, Append(paths, targetPath),
                           touched \cup {targetPath}, env)

\* a copy that removes a target it finds and fills one it does not find
copyToAll_toggle(f, src, name, dirs, env) ==
    Applied(TRUE,
            [p \in DOMAIN f |->
               IF \E i \in 1..Len(dirs) : p = TargetPath(dirs[i], name)
               THEN (IF f[p].present THEN Absent ELSE SourceState(f, src))
               ELSE f[p]],
            [i \in 1..Len(dirs) |-> TargetPath(dirs[i], name)],
            { TargetPath(dirs[i], name) : i \in 1..Len(dirs) })

\* copyToAll(sourcePath, name, installDirs): for every dir, in order,
\* mkdir dir, rm dir/name, cp sourcePath -> dir/name, push dir/name
copyToAll(f, src, name, dirs, env) == copyLoop(f, src, name, dirs, 1, <<>>, {}, env)

\* ---------------------------------------------------------------- settings
\* a file that is not a directory: its text, under the empty relative path
FileOf(text) == Present({ <<<<>>, text>> })
TextOf(state) == (CHOOSE file \in state.files : TRUE)[2]

\* the names that end in ".json", and those that start with "."
JsonNames == {"data.json", "extra.json", "notes.json", ".hidden.json"}
DotNames == {".hidden.json", ".git"}

\* findJsonFiles(dirPath): the *.json files directly in dirPath, but for the
\* dot files; none when the directory cannot be read
findJsonFiles(dirState) ==
    IF dirState.present
    THEN { file \in dirState.files :
             /\ Len(file[1]) = 1
             /\ file[1][1] \in JsonNames \ DotNames }
    ELSE {}

\* a registry in which every agent has a settingsFile
getAgentSettingsFiles_all(agents) == [i \in 1..Len(agents) |-> ClaudeSettingsFile]

\* getAgentSettingsFiles(agents): one entry per agent that has a settingsFile
getAgentSettingsFiles(agents) ==
    [i \in 1..Len(SelectSeq(agents, LAMBDA a : a = "claude")) |-> ClaudeSettingsFile]

RECURSIVE SeqOf(_)
SeqOf(S) == IF S = {} THEN <<>> ELSE LET x == CHOOSE y \in S : TRUE
                                     IN  <<x>> \o SeqOf(S \ {x})

\* a merge that keeps a text it cannot parse, as the member "raw"
existingOf_keepsText(f, agentFile) ==
    IF ~exists(f, agentFile) THEN EmptyObject
    ELSE IF ParseJson(TextOf(f[agentFile])).threw
    THEN JObj(<<Mem("raw", JStr(TextOf(f[agentFile])))>>)
    ELSE ParseJson(TextOf(f[agentFile])).value

\* existing = {} unless the file is there and its text parses
existingOf(f, agentFile) ==
    IF exists(f, agentFile) /\ ~ParseJson(TextOf(f[agentFile])).threw
    THEN ParseJson(TextOf(f[agentFile])).value
    ELSE EmptyObject

\* the inner loop of applySettings, over the JSON files of the package: a
\* file whose text does not parse is skipped
RECURSIVE writeLoop(_, _, _, _, _, _)
writeLoop(f, agentFile, jsonFiles, j, strategy, paths) ==
    IF j > Len(jsonFiles) THEN [fs |-> f, paths |-> paths]
    ELSE IF ParseJson(jsonFiles[j][2]).threw
    THEN writeLoop(f, agentFile, jsonFiles, j + 1, strategy, paths)
    ELSE writeLoop([f EXCEPT ![agentFile] =
                       FileOf(JsonText(
                           IF strategy = "replace"
                           THEN ParseJson(jsonFiles[j][2]).value
                           ELSE deepMerge(existingOf(f, agentFile),
                                          ParseJson(jsonFiles[j][2]).value)))],
                   agentFile, jsonFiles, j + 1, strategy, Append(paths, agentFile))

\* the outer loop of applySettings, over the agents' settings files
RECURSIVE mergeLoop(_, _, _, _, _, _, _, _)
mergeLoop(f, agentFiles, jsonFiles, i, strategy, paths, touched, env) ==
    IF i > Len(agentFiles) \/ jsonFiles = <<>>
    THEN Applied(TRUE, f, paths, touched)
    ELSE IF env.failAt = i /\ env.step = "mkdir"
    THEN Applied(FALSE, f, paths, touched)
    ELSE LET w == writeLoop(f, agentFiles[i], jsonFiles, 1, strategy, paths)
         IN  mergeLoop(w.fs, agentFiles, jsonFiles, i + 1, strategy, w.paths,
                       touched \cup (IF w.paths # paths THEN {agentFiles[i]} ELSE {}),
                       env)

\* applySettings(sourcePath, settingsName, strategy, options)
applySettings(f, src, name, strategy, options, env) ==
    LET dirsR  == resolveInstallDirs(options)
        config == getEffectiveConfig
        agents == IF Len(config.agents) > 0 THEN config.agents ELSE <<"claude">>
        agentFiles == getAgentSettingsFiles(agents)
        copied == IF dirsR.threw THEN Applied(FALSE, f, <<>>, {})
                  ELSE copyToAll(f, src, name, dirsR.dirs, env)
    IN  IF strategy = "copy" THEN copied
        ELSE IF config.threw THEN Applied(FALSE, f, <<>>, {})
        ELSE IF Len(agentFiles) = 0 THEN copied
        ELSE mergeLoop(f, agentFiles, SeqOf(findJsonFiles(SourceState(f, src))),
                       1, strategy, <<>>, {}, env)

\* pkg.metadata.strategy: the strategy named in the marker's frontmatter
StrategyOf(files) ==
    LET markers == { file \in files : file[1] = <<"SETTINGS.md">> }
    IN  IF markers = {} THEN "" ELSE (CHOOSE file \in markers : TRUE)[2][2]

\* options.strategy ?? pkg.metadata.strategy ?? 'copy'
EffectiveStrategy(options, files) ==
    IF options.strategy # "" THEN options.strategy
    ELSE IF StrategyOf(files) # "" THEN StrategyOf(files)
    ELSE "copy"

\* ---------------------------------------------------------------- results
NoErr == [kind |-> "none", found |-> <<>>]
Err(errKind, found) == [kind |-> errKind, found |-> found]

NoDiff == [added |-> {}, removed |-> {}, changed |-> {}, upToDate |-> FALSE]

\* What an engine call did. threw: the promise rejected; otherwise success,
\* paths, strategy and error are the install result, isNull and diff the
\* result of an update check, units the names discovery returned. created are
\* the temp directories the call made, selected the unit it picked, touched
\* the target paths it removed or wrote.
Report(threw, success, error, paths, created, selected, touched) ==
    [threw |-> threw, success |-> success, error |-> error, paths |-> paths,
     strategy |-> "", isNull |-> FALSE, diff |-> NoDiff, units |-> <<>>,
     created |-> created, selected |-> selected, touched |-> touched]

\* the outcome of a call: what it did and the state it leaves
Outcome(d, f, report) == [disk |-> d, fs |-> f, report |-> report]

Rejected(d, f, errKind, created) ==
    Outcome(d, f, Report(TRUE, FALSE, Err(errKind, <<>>), <<>>, created, NoUnit, {}))

Failed(d, f, error, created, selected, touched) ==
    Outcome(d, f, Report(FALSE, FALSE, error, <<>>, created, selected, touched))

Created(c) == { c.attempts[i].dir : i \in 1..Len(c.attempts) }

\* a run that leaves the temp directory behind
Release_skip(c) == c.disk

\* finally { if (tempDir) await cleanupTempDir(tempDir).catch(() => {}) }
Release(c) == cleanupTempDir(c.disk, c.dir).disk

\* ---------------------------------------------------------------- install
\* the return, catch and finally of a git install after the copy ap
installGitEnd(c, unit, strategy, ap) ==
    IF ~ap.ok
    THEN Failed(Release(c), ap.fs, Err("IOError", <<>>), Created(c), unit, ap.touched)
    ELSE Outcome(Release(c), ap.fs,
                 [Report(FALSE, TRUE, NoErr, ap.paths, Created(c), unit, ap.touched)
                    EXCEPT !.strategy = strategy])

\* a git install that clears its first target before it selects
installGitSkillTry_rmFirst(f, name, env, dirs, c, units) ==
    IF ~c.ok
    THEN Failed(c.disk, f, Err("GitCloneError", <<>>), Created(c), NoUnit, {})
    ELSE IF env.step = "discover"
    THEN Failed(Release(c), f, Err("WalkError", <<>>), Created(c), NoUnit, {})
    ELSE IF selectUnit(units, name) = NoUnit
    THEN Failed(Release(c), [f EXCEPT ![TargetPath(dirs[1], name)] = Absent],
                Err("NotFound", Names(units)), Created(c), NoUnit, {})
    ELSE installGitEnd(c, selectUnit(units, name), "",
             copyToAll(f, InClone(FilesAt(remote, selectUnit(units, name), env.stamp)),
                       name, dirs, env))

\* the try block of installGitSkill after the clone c
installGitSkillTry(f, name, env, dirs, c, units) ==
    LET skill == selectUnit(units, name)
    IN  IF ~c.ok
        THEN Failed(c.disk, f, Err("GitCloneError", <<>>), Created(c), NoUnit, {})
        ELSE IF env.step = "discover"
        THEN Failed(Release(c), f, Err("WalkError", <<>>), Created(c), NoUnit, {})
        ELSE IF skill = NoUnit
        THEN Failed(Release(c), f, Err("NotFound", Names(units)), Created(c), NoUnit, {})
        ELSE installGitEnd(c, skill, "",
                 copyToAll(f, InClone(FilesAt(remote, skill, env.stamp)), name, dirs, env))

\* installGitSkill(source, skillName, options)
installGitSkill(d, f, source, name, options, env) ==
    IF resolveInstallDirs(options).threw THEN Rejected(d, f, "ConfigError", {})
    ELSE installGitSkillTry(f, name, env, resolveInstallDirs(options).dirs,
                            cloneRepo(d, source.url, options.ssh, env.o1, env.o2),
                            discoverUnits(remote, source.subpath))

\* the try block of installGitSettings after the clone c
installGitSettingsTry(f, name, options, env, c, units) ==
    LET pkg == selectUnit(units, name)
        effectiveStrategy == EffectiveStrategy(options, pkg.files)
    IN  IF ~c.ok
        THEN Failed(c.disk, f, Err("GitCloneError", <<>>), Created(c), NoUnit, {})
        ELSE IF env.step = "discover"
        THEN Failed(Release(c), f, Err("WalkError", <<>>), Created(c), NoUnit, {})
        ELSE IF pkg = NoUnit
        THEN Failed(Release(c), f, Err("NotFound", Names(units)), Created(c), NoUnit, {})
        ELSE installGitEnd(c, pkg, effectiveStrategy,
                 applySettings(f, InClone(FilesAt(remote, pkg, env.stamp)), name,
                               effectiveStrategy, options, env))

\* installGitSettings(source, settingsName, options)
installGitSettings(d, f, source, name, options, env) ==
    installGitSettingsTry(f, name, options, env,
                          cloneRepo(d, source.url, options.ssh, env.o1, env.o2),
                          discoverUnits(remote, source.subpath))

\* the return and catch of a local install after the copy ap
installUserEnd(d, strategy, ap) ==
    IF ~ap.ok
    THEN Failed(d, ap.fs, Err("IOError", <<>>), {}, NoUnit, ap.touched)
    ELSE Outcome(d, ap.fs,
                 [Report(FALSE, TRUE, NoErr, ap.paths, {}, NoUnit, ap.touched)
                    EXCEPT !.strategy = strategy])

\* installUserSkill(source, skillName, options)
installUserSkill(d, f, source, name, options, env) ==
    LET dirsR == resolveInstallDirs(options)
        sourcePath == Resolve(source.url)
    IN  IF dirsR.threw THEN Rejected(d, f, "ConfigError", {})
        ELSE IF ~exists(f, sourcePath)
        THEN Failed(d, f, Err("PathNotFound", <<>>), {}, NoUnit, {})
        ELSE installUserEnd(d, "", copyToAll(f, OnDisk(sourcePath), name, dirsR.dirs, env))

\* installUserSettings(source, settingsName, options)
installUserSettings(d, f, source, name, options, env) ==
    LET sourcePath == Resolve(source.url)
        effectiveStrategy == EffectiveStrategy(options, f[sourcePath].files)
    IN  IF ~exists(f, sourcePath)
        THEN Failed(d, f, Err("PathNotFound", <<>>), {}, NoUnit, {})
        ELSE installUserEnd(d, effectiveStrategy,
                 applySettings(f, OnDisk(sourcePath), name, effectiveStrategy,
                               options, env))

installGit(d, f, source, name, options, env) ==
    IF kind = "skill" THEN installGitSkill(d, f, source, name, options, env)
    ELSE installGitSettings(d, f, source, name, options, env)

installUser(d, f, source, name, options, env) ==
    IF kind = "skill" THEN installUserSkill(d, f, source, name, options, env)
    ELSE installUserSettings(d, f, source, name, options, env)

\* ---------------------------------------------------------------- check
UpToDate(diff) ==
    [added |-> diff.added, removed |-> diff.removed, changed |-> diff.changed,
     upToDate |-> diff.added = {} /\ diff.removed = {} /\ diff.changed = {}]

NullResult(created) ==
    [Report(FALSE, FALSE, NoErr, <<>>, created, NoUnit, {}) EXCEPT !.isNull = TRUE]

\* an update check that brings the local copy up to the upstream unit
checkForUpdatesTry_sync(f, name, localPath, stamp, step, c, units) ==
    LET unit == selectUnit(units, name)
    IN  IF ~c.ok THEN Rejected(c.disk, f, "GitCloneError", Created(c))
        ELSE IF step = "discover" THEN Rejected(Release(c), f, "WalkError", Created(c))
        ELSE IF unit = NoUnit THEN Outcome(Release(c), f, NullResult(Created(c)))
        ELSE Outcome(Release(c),
                 [f EXCEPT ![localPath] = Present(FilesAt(remote, unit, stamp))],
                 [Report(FALSE, FALSE, NoErr, <<>>, Created(c), unit, {})
                    EXCEPT !.diff = UpToDate(diffHashes(
                               hashDirectory(f[localPath]),
                               hashDirectory(Present(FilesAt(remote, unit, stamp)))))])

\* the try and finally of the update check after the clone c
checkForUpdatesTry(f, name, localPath, stamp, step, c, units) ==
    LET unit == selectUnit(units, name)
    IN  IF ~c.ok THEN Rejected(c.disk, f, "GitCloneError", Created(c))
        ELSE IF step = "discover" THEN Rejected(Release(c), f, "WalkError", Created(c))
        ELSE IF unit = NoUnit THEN Outcome(Release(c), f, NullResult(Created(c)))
        ELSE Outcome(Release(c), f,
                 [Report(FALSE, FALSE, NoErr, <<>>, Created(c), unit, {})
                    EXCEPT !.diff = UpToDate(diffHashes(
                               hashDirectory(f[localPath]),
                               hashDirectory(Present(FilesAt(remote, unit, stamp)))))])

\* checkSkillForUpdates / checkSettingsForUpdates(source, name, options)
checkForUpdates(d, f, source, name, options, env) ==
    LET dirsR == resolveInstallDirs(options)
        localPath == TargetPath(dirsR.dirs[1], name)
        e == CloneEnvFor(source, env)
    IN  IF dirsR.threw THEN Rejected(d, f, "ConfigError", {})
        ELSE IF Len(dirsR.dirs) = 0 THEN Rejected(d, f, "TypeError", {})
        ELSE IF ~exists(f, localPath) THEN Outcome(d, f, NullResult({}))
        ELSE checkForUpdatesTry(f, name, localPath, e.stamp, e.step,
                                cloneRepo(d, source.url, options.ssh, e.o1, e.o2),
                                discoverUnits(remote, source.subpath))

\* the try and finally of discoverSkillsFromSource after the clone c
discoverFromSourceTry(f, step, c, units) ==
    IF ~c.ok THEN Rejected(c.disk, f, "GitCloneError", Created(c))
    ELSE IF step = "discover" THEN Rejected(Release(c), f, "WalkError", Created(c))
    ELSE Outcome(Release(c), f,
             [Report(FALSE, TRUE, NoErr, <<>>, Created(c), NoUnit, {})
                EXCEPT !.units = Names(units)])

\* discoverSkillsFromSource / discoverSettingsFromSource(source, options)
discoverFromSource(d, f, source, options, env) ==
    discoverFromSourceTry(f, env.step,
                          cloneRepo(d, source.url, options.ssh, env.o1, env.o2),
                          discoverUnits(remote, source.subpath))

\* ---------------------------------------------------------------- update
\* the line the update command prints for an entry, and what the turn did
UpdateLine(status, diff, chk, o) ==
    [disk |-> o.disk, fs |-> o.fs,
     report |-> [status |-> status, diff |-> diff,
                 isNull |-> ~chk.report.threw /\ chk.report.isNull,
                 created |-> chk.report.created \cup o.report.created,
                 touched |-> o.report.touched]]

\* the install the update command makes after the check chk
updateInstall(chk, inst) ==
    IF inst.report.threw THEN UpdateLine("rejected", NoDiff, chk, inst)
    ELSE IF ~inst.report.success THEN UpdateLine("failed", NoDiff, chk, inst)
    ELSE IF chk.report.isNull THEN UpdateLine("installed", NoDiff, chk, inst)
    ELSE UpdateLine("updated", chk.report.diff, chk, inst)

\* a turn that installs whatever the check says
updateChecked_alwaysInstall(source, name, options, envInstall, chk) ==
    IF chk.report.threw THEN UpdateLine("failed", NoDiff, chk, chk)
    ELSE updateInstall(chk, installGit(chk.disk, chk.fs, source, name, options,
                                       envInstall))

\* the turn after the check chk
updateChecked(source, name, options, envInstall, chk) ==
    IF chk.report.threw THEN UpdateLine("failed", NoDiff, chk, chk)
    ELSE IF ~chk.report.isNull /\ chk.report.diff.upToDate
    THEN UpdateLine("up-to-date", NoDiff, chk, chk)
    ELSE updateInstall(chk, installGit(chk.disk, chk.fs, source, name, options,
                                       envInstall))

\* One turn of the loop of the update command (commands/update.tsx and
\* commands/settings/update.tsx) over a git entry of the manifest: check,
\* then install if the check returned null or a non-empty diff.
\* status "rejected": the install rejected, which the loop does not catch.
updateEntry(d, f, source, name, options, envCheck, envInstall) ==
    updateChecked(source, name, options, envInstall,
                  checkForUpdates(d, f, source, name, options, envCheck))

\* ---------------------------------------------------------------- parseSource
\* A locator is the source string of a command line or a manifest entry, as
\* the sequence of its lexemes: the prefixes "github:", "gitlab:", "git:" and
\* "file:", the separators "://", "/" and "#", the suffix ".git", and names.
RECURSIVE Concat(_)
Concat(ts) == IF ts = <<>> THEN "" ELSE ts[1] \o Concat(Tail(ts))

Occurs(ts, t) == { i \in 1..Len(ts) : ts[i] = t }
FirstOf(S) == CHOOSE i \in S : \A j \in S : i <= j
LastOf(S) == CHOOSE i \in S : \A j \in S : j <= i

\* input.split('/'): the segments between the slashes, each a lexeme sequence
RECURSIVE split(_)
split(ts) ==
    IF Occurs(ts, "/") = {} THEN <<ts>>
    ELSE <<SubSeq(ts, 1, FirstOf(Occurs(ts, "/")) - 1)>>
         \o split(SubSeq(ts, FirstOf(Occurs(ts, "/")) + 1, Len(ts)))

\* the mutant: split on the first '#'
splitRef_first(input) ==
    IF Occurs(input, "#") = {} THEN [base |-> input, ref |-> NoRef]
    ELSE [base |-> SubSeq(input, 1, FirstOf(Occurs(input, "#")) - 1),
          ref |-> Concat(SubSeq(input, FirstOf(Occurs(input, "#")) + 1, Len(input)))]

\* splitRef(input): split on the last '#'; an empty ref is undefined
splitRef(input) ==
    IF Occurs(input, "#") = {} THEN [base |-> input, ref |-> NoRef]
    ELSE [base |-> SubSeq(input, 1, LastOf(Occurs(input, "#")) - 1),
          ref |-> Concat(SubSeq(input, LastOf(Occurs(input, "#")) + 1, Len(input)))]

\* segment.replace(/\.git$/, '')
StripGit(seg) ==
    IF Len(seg) > 0 /\ seg[Len(seg)] = ".git" THEN SubSeq(seg, 1, Len(seg) - 1)
    ELSE seg

\* segments.slice(2).join('/'), kept as the sequence of its segments; no
\* segment left: undefined
SubpathOf(segments) ==
    [i \in 1..(Len(segments) - 2) |-> Concat(segments[i + 2])]

Parsed(source) == [threw |-> FALSE, error |-> "", source |-> source]
ParseError(message) ==
    [threw |-> TRUE, error |-> message,
     source |-> [type |-> "none", url |-> NoUrl, ref |-> NoRef, subpath |-> RootDir]]

\* parseGitHub(input) and the gitlab branch of parseGenericGit(type, input)
parseHosted(type, host, input) ==
    IF Len(split(splitRef(input).base)) < 2
    THEN ParseError("expected at least owner/repo")
    ELSE Parsed([type |-> type,
                 url |-> [proto |-> "https://", host |-> host,
                          path |-> Concat(split(splitRef(input).base)[1]) \o "/"
                                   \o Concat(StripGit(split(splitRef(input).base)[2]))
                                   \o ".git"],
                 ref |-> splitRef(input).ref,
                 subpath |-> SubpathOf(split(splitRef(input).base))])

parseGitHub(input) == parseHosted("github", "github.com", input)

\* the URL a lexeme sequence spells: protocol, host, path
UrlOf(ts) ==
    IF Len(ts) >= 3 /\ ts[2] = "://"
    THEN [proto |-> ts[1] \o "://", host |-> ts[3],
          path |-> Concat(SubSeq(ts, 5, Len(ts)))]
    ELSE [proto |-> "", host |-> "", path |-> Concat(ts)]

parseGenericGit(type, input) ==
    IF type = "git"
    THEN Parsed([type |-> "git",
                 url |-> UrlOf(IF splitRef(input).base # <<>>
                                  /\ splitRef(input).base[Len(splitRef(input).base)] = ".git"
                               THEN splitRef(input).base
                               ELSE splitRef(input).base \o <<".git">>),
                 ref |-> splitRef(input).ref,
                 subpath |-> RootDir])
    ELSE parseHosted("gitlab", "gitlab.com", input)

\* the local path a file: locator spells, as its segments
PathOf(ts) == [i \in 1..Len(split(ts)) |-> Concat(split(ts)[i])]

\* the mutant: no shorthand, a bare locator is refused
parseSource_noShorthand(source) ==
    IF source # <<>> /\ source[1] = "github:" THEN parseGitHub(Tail(source))
    ELSE IF source # <<>> /\ source[1] = "gitlab:"
    THEN parseGenericGit("gitlab", Tail(source))
    ELSE IF source # <<>> /\ source[1] = "git:"
    THEN parseGenericGit("git", Tail(source))
    ELSE IF source # <<>> /\ source[1] = "file:"
    THEN Parsed([type |-> "file",
                 url |-> [proto |-> "", host |-> "", path |-> PathOf(Tail(source))],
                 ref |-> NoRef, subpath |-> RootDir])
    ELSE ParseError("Unknown source format")

\* parseSource(source)
parseSource(source) ==
    IF source # <<>> /\ source[1] = "github:" THEN parseGitHub(Tail(source))
    ELSE IF source # <<>> /\ source[1] = "gitlab:"
    THEN parseGenericGit("gitlab", Tail(source))
    ELSE IF source # <<>> /\ source[1] = "git:"
    THEN parseGenericGit("git", Tail(source))
    ELSE IF source # <<>> /\ source[1] = "file:"
    THEN Parsed([type |-> "file",
                 url |-> [proto |-> "", host |-> "", path |-> PathOf(Tail(source))],
                 ref |-> NoRef, subpath |-> RootDir])
    ELSE IF Occurs(source, "://") = {} /\ Occurs(source, "/") # {}
    THEN parseGitHub(source)
    ELSE ParseError("Unknown source format")

\* the locators the commands are given
Locators ==
    { <<"github:", "o", "/", "r">>,
      <<"o", "/", "r", ".git", "/", "a">>,
      <<"file:", "src", "/", "u">>,
      <<"github:", "o">>,
      <<"https", "://", "github.com", "/", "o", "/", "r">>,
      <<"o">> }

\* ---------------------------------------------------------------- SpecSync
\* The engine under its callers: installs, update checks, discovery and
\* update turns, one call at a time, against a repository that moves. last
\* holds what the call just made did, until the caller has taken it.
NoCall == [op |-> "none"]

InitSync ==
    /\ kind \in {"skill", "settings"}
    /\ disk = {TmpRoot}
    /\ gitCall = NoGitCall
    /\ remote \in Repos(kind)
    /\ projectCfg \in {CfgInvalid, CfgOk(<<"claude", "cursor">>)}
                    \cup (IF kind = "settings" THEN {CfgOk(<<"cursor">>)} ELSE {})
    /\ fs = [p \in Locations |->
               IF p = LocalPath THEN Present(UnitFiles(kind, "p1", "")) ELSE Absent]
    /\ last = NoCall
    /\ batch = NoBatch
    /\ procs = NoProcs
    /\ calc = NoCalc

\* the call returns or rejects: the state it leaves, and what it did
Returned(op, source, name, options, o) ==
    /\ disk' = o.disk
    /\ fs' = o.fs
    /\ last' = [op |-> op, src |-> source, name |-> name, opts |-> options,
                report |-> o.report]
    /\ UNCHANGED <<gitCall, kind, remote, projectCfg, aux>>

InstallGit ==
    \E source \in GitSources, name \in UnitNames, options \in Options(kind),
       env \in InstallEnvs :
        last = NoCall /\ Returned("installGit", source, name, options,
                 installGit(disk, fs, source, name, options, env))

InstallUser ==
    \E source \in FileSources, name \in UnitNames, options \in Options(kind),
       env \in LocalEnvs :
        last = NoCall /\ Returned("installUser", source, name, options,
                 installUser(disk, fs, source, name, options, env))

\* an update check, on its own or right after an install of the same source
\* with the same options
CheckForUpdates ==
    \E source \in GitSources \cup {FileSource(LocalPath)}, name \in UnitNames,
       options \in Options(kind), env \in CheckEnvs :
        /\ \/ last = NoCall
           \/ /\ last.op \in {"installGit", "installUser"}
              /\ source = last.src
              /\ options = last.opts
        /\ Returned("check", source, name, options,
                    checkForUpdates(disk, fs, source, name, options, env))

DiscoverFromSource ==
    \E source \in GitSources, options \in Options(kind), env \in CheckEnvs :
        last = NoCall /\ Returned("discover", source, "", options,
                 discoverFromSource(disk, fs, source, options, env))

\* a turn of the update command, on its own or right after an install of the
\* same source with the same options
UpdateEntry ==
    \E source \in GitSources, name \in UnitNames, options \in Options(kind),
       envCheck \in CheckEnvs, envInstall \in InstallEnvs :
        /\ \/ last = NoCall
           \/ /\ last.op \in {"installGit", "installUser"}
              /\ source = last.src
              /\ options = last.opts
        /\ Returned("update", source, name, options,
                    updateEntry(disk, fs, source, name, options, envCheck, envInstall))

\* A command parses the locator it was given (commands/add.tsx) or the
\* manifest's (validateSkillEntry), before any engine call: parseSource
\* returns the source or throws.
ParseSource ==
    \E locator \in Locators :
        /\ last = NoCall
        /\ last' = [op |-> "parse", src |-> parseSource(locator).source, name |-> "",
                    opts |-> [customPath |-> NoPath, ssh |-> FALSE, strategy |-> ""],
                    report |-> Report(parseSource(locator).threw,
                                      ~parseSource(locator).threw,
                                      IF parseSource(locator).threw
                                      THEN Err("ParseError", <<>>) ELSE NoErr,
                                      <<>>, {}, NoUnit, {})]
        /\ UNCHANGED <<disk, gitCall, kind, fs, remote, projectCfg, aux>>

\* somebody pushes to the repository
Push ==
    /\ last = NoCall
    /\ \E r \in Repos(kind) \ {remote} : remote' = r
    /\ UNCHANGED <<disk, gitCall, kind, fs, projectCfg, last, aux>>

\* the caller takes the result
Settle ==
    /\ last # NoCall
    /\ last' = NoCall
    /\ UNCHANGED <<disk, gitCall, kind, fs, remote, projectCfg, aux>>

NextSync ==
    \/ InstallGit
    \/ InstallUser
    \/ CheckForUpdates
    \/ DiscoverFromSource
    \/ ParseSource
    \/ UpdateEntry
    \/ Push
    \/ Settle

SpecSync == InitSync /\ [][NextSync]_vars

(***************************************************************************)
(* Properties of the engine, under SpecSync.                                *)
(***************************************************************************)
InstallOps == {"installGit", "installUser"}

\* the first directory an operation resolves for its options
PrimaryTarget(call) ==
    TargetPath(IF call.opts.customPath # NoPath THEN call.opts.customPath
               ELSE AgentDir(projectCfg.agents[1]),
               call.name)

\* the units upstream that lie in the search path of the call
Upstream(call) == discoverUnits(remote, call.src.subpath)

\* the selection rule: the first unit named as requested; else the only unit
\* there is; else none
Named(units, name) == { i \in 1..Len(units) : units[i].name = name }
ExpectedSelection(units, name) ==
    IF Named(units, name) # {}
    THEN units[CHOOSE i \in Named(units, name) : \A j \in Named(units, name) : i <= j]
    ELSE IF Len(units) = 1 THEN units[1]
    ELSE NoUnit

\* the call retrieved and discovered, so that it came to select a unit
CameToSelect(call) ==
    /\ call.op \in {"installGit", "check"}
    /\ call.report.created # {}
    /\ call.report.error.kind \notin {"GitCloneError", "WalkError"}

\* the fingerprint comparison of a local tree with an upstream tree
PathsOf(files) == { x[1] : x \in files }
FingerprintDiff(local, upstream) ==
    [added   |-> PathsOf(upstream) \ PathsOf(local),
     removed |-> PathsOf(local) \ PathsOf(upstream),
     changed |-> { p \in PathsOf(upstream) \cap PathsOf(local) :
                     \E x \in upstream, y \in local :
                        x[1] = p /\ y[1] = p /\ x[2] # y[2] },
     upToDate |-> FALSE]
EmptyDiff(diff) == diff.added = {} /\ diff.removed = {} /\ diff.changed = {}

\* C1 (as claimed): an install operation never rejects to its caller; every
\* failure, target resolution included, comes back as a result with
\* success = false. The skill installs resolve their targets before the try
\* block, so an unreadable project config makes them reject.
C1_Claimed_InstallNeverRejects ==
    last.op \in InstallOps => ~last.report.threw

\* C2: when a git install, an update check or a discovery has finished, by
\* returning or by throwing, no temp directory its retrieval created is left.
C2_TempDirsReleased ==
    last.op \in {"installGit", "check", "discover"} =>
        last.report.created \cap disk = {}

\* an update check threw after its clone had succeeded
C2_Witness ==
    /\ last.op = "check"
    /\ last.report.threw
    /\ last.report.error.kind = "WalkError"
    /\ last.report.created # {}

\* C7 (as claimed): every install, local ones included, and every update check
\* selects by the rule, fails with a not-found error listing the discovered
\* names when the rule selects nothing, and an install succeeds only with a
\* selected unit.
C7_Claimed_SelectionInEveryInstallAndCheck ==
    /\ (last.op \in InstallOps /\ last.report.success) =>
           last.report.selected # NoUnit
    /\ CameToSelect(last) =>
           /\ last.report.selected = ExpectedSelection(Upstream(last), last.name)
           /\ last.report.selected = NoUnit =>
                  last.report.error = Err("NotFound", Names(Upstream(last)))

\* C7: a git install and an update check select by the rule; when the rule
\* selects nothing the install fails with a not-found error listing the
\* discovered names and the check returns null; a git install succeeds only
\* with a selected unit; a local install selects nothing.
C7_SelectionRule ==
    /\ CameToSelect(last) =>
           /\ last.report.selected = ExpectedSelection(Upstream(last), last.name)
           /\ (last.report.selected = NoUnit /\ last.op = "installGit") =>
                  /\ ~last.report.success
                  /\ last.report.error = Err("NotFound", Names(Upstream(last)))
           /\ (last.report.selected = NoUnit /\ last.op = "check") =>
                  last.report.isNull
    /\ (last.op = "installGit" /\ last.report.success) =>
           /\ last.report.selected # NoUnit
           /\ last.report.selected = ExpectedSelection(Upstream(last), last.name)
    /\ last.op = "installUser" => last.report.selected = NoUnit

\* two units upstream, none of them named as requested: nothing is selected
C7_Witness ==
    /\ last.op = "installGit"
    /\ last.report.error.kind = "NotFound"
    /\ Len(last.report.error.found) = 2

Resolvable(call) == call.opts.customPath # NoPath \/ projectCfg.st = "ok"

\* the unit the rule selects upstream for the call, and its files in a clone
UpstreamUnit(call) == ExpectedSelection(Upstream(call), call.name)
UpstreamFiles(call, stamp) == FilesAt(remote, UpstreamUnit(call), stamp)

\* C8 (as claimed): in an update turn an entry absent from the primary target
\* is installed without diffing and reported 'installed'; one present with an
\* empty diff is left alone and reported 'up-to-date'; one present with a
\* non-empty diff is reported 'updated' with that diff.
C8_Claimed_ThreeOutcomes ==
    [][ (last'.op = "update" /\ Resolvable(last')) =>
          LET r == last'.report
              local == fs[PrimaryTarget(last')]
              diff(stamp) == FingerprintDiff(local.files, UpstreamFiles(last', stamp))
          IN  /\ ~local.present => (r.status = "installed" /\ r.diff = NoDiff)
              /\ (/\ local.present
                  /\ UpstreamUnit(last') # NoUnit
                  /\ \A g \in GitStamps : EmptyDiff(diff(g)))
                 => (r.status = "up-to-date" /\ fs' = fs)
              /\ (/\ local.present
                  /\ UpstreamUnit(last') # NoUnit
                  /\ \A g \in GitStamps : ~EmptyDiff(diff(g)))
                 => (r.status = "updated" /\ \E g \in GitStamps : r.diff = diff(g))
      ]_vars

\* C8: in an update turn an entry absent from the primary target is installed
\* without diffing and reported 'installed' if that install succeeds, 'failed'
\* if not; one present whose diff is empty is left alone and reported
\* 'up-to-date'; one present whose diff is not empty is re-applied and
\* reported 'updated' with that diff if the install succeeds, 'failed' if not;
\* an entry whose check fails, or that is present while the rule selects no
\* unit upstream, is reported 'failed'. A reported skill is, after the turn,
\* the upstream unit.
C8_UpdateOutcomes ==
    [][ last'.op = "update" =>
          LET r == last'.report
              p == PrimaryTarget(last')
              local == fs[p]
              diff(stamp) == FingerprintDiff(local.files, UpstreamFiles(last', stamp))
          IN  /\ r.status \in {"installed", "up-to-date", "updated", "failed"}
              /\ ~Resolvable(last') => r.status = "failed"
              /\ Resolvable(last') =>
                  /\ ~local.present =>
                        (r.status \in {"installed", "failed"} /\ r.diff = NoDiff)
                  /\ r.status = "installed" => (~local.present /\ r.touched # {})
                  /\ r.status = "up-to-date" =>
                        /\ local.present
                        /\ fs' = fs
                        /\ r.touched = {}
                        /\ \E g \in GitStamps : EmptyDiff(diff(g))
                  /\ r.status = "updated" =>
                        /\ local.present
                        /\ r.touched # {}
                        /\ \E g \in GitStamps : ~EmptyDiff(diff(g)) /\ r.diff = diff(g)
                  /\ (r.status \in {"installed", "updated"} /\ kind = "skill") =>
                        \E g \in GitStamps : fs'[p] = Present(UpstreamFiles(last', g))
                  /\ (/\ local.present
                      /\ UpstreamUnit(last') # NoUnit
                      /\ \A g \in GitStamps : EmptyDiff(diff(g)))
                     => r.status \in {"up-to-date", "failed"}
                  /\ (/\ local.present
                      /\ UpstreamUnit(last') # NoUnit
                      /\ \A g \in GitStamps : ~EmptyDiff(diff(g)))
                     => r.status \in {"updated", "failed"}
                  /\ (local.present /\ UpstreamUnit(last') = NoUnit) =>
                        r.status = "failed"
      ]_vars

\* an entry whose upstream content changed is reported 'updated'
C8_Witness ==
    /\ last.op = "update"
    /\ last.report.status = "updated"
    /\ last.report.diff.changed # {}

\* the check threw although its source is a git source: retrieval or the
\* directory walk failed
RetrievalFailed(call) == call.report.threw /\ call.src.type # "file"

\* C10 (as claimed): after a successful install into a single target, an
\* update check with the same source, name and options, nothing having moved
\* upstream, returns upToDate = true with empty sets, for every source kind.
C10_Claimed_UpToDateAfterInstall ==
    [][ (/\ last.op \in InstallOps
         /\ last.report.success
         /\ last.opts.customPath # NoPath
         /\ last'.op = "check"
         /\ ~RetrievalFailed(last'))
        => (/\ ~last'.report.threw
            /\ ~last'.report.isNull
            /\ last'.report.diff.upToDate
            /\ EmptyDiff(last'.report.diff))
      ]_vars

\* ---------------------------------------------------------------- C11
\* the call failed to parse its locator or to select a unit
ParseOrSelectionFailed(call) ==
    \/ call.op = "parse" /\ call.report.threw
    \/ call.op = "installGit" /\ call.report.error.kind = "NotFound"

\* C11: a call that fails because the locator does not parse, or because the
\* selection rule picks no unit (no unit named as requested and not exactly
\* one unit discovered), fails without creating, changing or deleting
\* anything on disk outside the temp root: every target directory, settings
\* file and local source is as it was before the call.
C11_ParseOrSelectionFailureWritesNothing ==
    [][ParseOrSelectionFailed(last') =>
           /\ fs' = fs
           /\ ~last'.report.success
           /\ last'.report.touched = {}
           /\ last'.report.paths = <<>>]_vars

\* the selection failed for a unit that is installed already
C11_Witness ==
    /\ last.op = "installGit"
    /\ last.report.error.kind = "NotFound"
    /\ last.report.selected = NoUnit
    /\ \E p \in Locations \ {LocalPath} : fs[p].present

\* ---------------------------------------------------------------- C14
\* the paths of a report, as a set
PathSet(paths) == { paths[i] : i \in 1..Len(paths) }

\* the paths a call removed or wrote that hold something afterwards: what it
\* has written
Written(call) == { p \in call.report.touched : fs[p].present }

\* C14 (as claimed): in every install result, paths lists exactly the target
\* paths the operation has written, each once. copyToAll and applySettings
\* hand their list back only when every target went through; when a later
\* target fails, the catch block returns paths = [] although the earlier
\* targets are written.
C14_Claimed_PathsAreTheTargetsWritten ==
    (last.op \in InstallOps /\ ~last.report.threw) =>
        /\ PathSet(last.report.paths) = Written(last)
        /\ \A i, j \in 1..Len(last.report.paths) :
              last.report.paths[i] = last.report.paths[j] => i = j

\* ---------------------------------------------------------------- C15
\* none of the configured agents has a settings file: in AGENT_REGISTRY
\* claude alone has one
NoFileAgents ==
    /\ projectCfg.st = "ok"
    /\ \A i \in 1..Len(projectCfg.agents) : projectCfg.agents[i] # "claude"

\* the settings install came to apply its package: retrieval, discovery and
\* selection went through, or the local source exists
CameToApply(call) ==
    /\ call.op \in InstallOps
    /\ kind = "settings"
    /\ ~call.report.threw
    /\ call.report.error.kind \notin
           {"GitCloneError", "WalkError", "NotFound", "PathNotFound"}

\* the files of the package the call applied
PackageOf(call) ==
    IF call.op = "installGit" THEN call.report.selected.files
    ELSE fs[Resolve(call.src.url)].files

\* the directories the call resolved
TargetsOf(call) ==
    [i \in 1..Len(resolveInstallDirs(call.opts).dirs) |->
        TargetPath(resolveInstallDirs(call.opts).dirs[i], call.name)]

\* the content the copy puts into a target
CopiedContent(call) ==
    IF call.op = "installGit"
    THEN { FilesAt(remote, call.report.selected, g) : g \in GitStamps }
    ELSE { fs[Resolve(call.src.url)].files }

\* C15: a settings install whose strategy is merge or replace, with no
\* configured agent that has a settings file, applies the copy strategy: it
\* fails only if the copy itself fails (mkdir, rm or cp raising), never for
\* the lack of a settings file; it touches the directory targets only; and
\* when it succeeds, paths are the targets in order and every target/unitName
\* holds the copy of the package.
C15_NoSettingsFileFallsBackToCopy ==
    (/\ CameToApply(last)
     /\ NoFileAgents
     /\ EffectiveStrategy(last.opts, PackageOf(last)) \in {"merge", "replace"}) =>
        /\ last.report.success <=> last.report.error.kind # "IOError"
        /\ last.report.touched \subseteq PathSet(TargetsOf(last))
        /\ ~fs[ClaudeSettingsFile].present
        /\ last.report.success =>
              /\ last.report.paths = TargetsOf(last)
              /\ \A i \in 1..Len(TargetsOf(last)) :
                    /\ fs[TargetsOf(last)[i]].present
                    /\ fs[TargetsOf(last)[i]].files \in CopiedContent(last)

\* a package whose marker says merge, installed for the cursor agent alone
C15_Witness ==
    /\ last.op = "installGit"
    /\ kind = "settings"
    /\ NoFileAgents
    /\ last.opts.customPath = NoPath
    /\ last.report.success
    /\ last.report.strategy = "merge"
    /\ fs[TargetPath(AgentDir("cursor"), last.name)].present

\* ---------------------------------------------------------------- SpecBatch
\* The install and update commands (InstallApp, UpdateApp): read the
\* manifest, then one turn of the loop per entry, then done. A rejected
\* promise inside the async function ends it where it stands.
Entry(name, locator, path) == [name |-> name, source |-> locator, path |-> path]

GitEntryU == Entry("u", <<"github:", "o", "/", "r">>, NoPath)
GitEntryUCustom == Entry("u", <<"o", "/", "r", ".git", "/", "a">>, CustomPath)
GitEntryV == Entry("v", <<"github:", "o", "/", "r">>, NoPath)
GitEntryBad == Entry("v", <<"o">>, NoPath)
UserEntryU == Entry("u", <<"file:", "src", "/", "u">>, NoPath)
UserEntryV == Entry("v", <<"file:", "does", "/", "not", "/", "exist">>, CustomPath)
UserEntryGit == Entry("v", <<"github:", "o", "/", "r">>, NoPath)

\* skills.json: missing, not JSON, or an object with skills and userSkills
ManifestMissing == [st |-> "missing", skills |-> <<>>, userSkills |-> <<>>]
ManifestNotJson == [st |-> "invalid", skills |-> <<>>, userSkills |-> <<>>]
ManifestFiles ==
    {ManifestMissing, ManifestNotJson}
    \cup { [st |-> "ok", skills |-> s, userSkills |-> u] :
             s \in { <<>>, <<GitEntryU>>, <<GitEntryU, GitEntryV>>,
                     <<GitEntryV, GitEntryUCustom>>, <<GitEntryU, GitEntryBad>> },
             u \in { <<>>, <<UserEntryU>>, <<UserEntryV>>, <<UserEntryGit>> } }

\* validateSkillEntry(entry, name, isUserSkill)
validateSkillEntry(entry, isUserSkill) ==
    /\ ~parseSource(entry.source).threw
    /\ isUserSkill => parseSource(entry.source).source.type = "file"

\* validateManifest(manifest)
validateManifest(manifest) ==
    /\ \A i \in 1..Len(manifest.skills) : validateSkillEntry(manifest.skills[i], FALSE)
    /\ \A i \in 1..Len(manifest.userSkills) :
          validateSkillEntry(manifest.userSkills[i], TRUE)

\* readManifest(cwd): null, a throw, or the manifest
readManifest(file) ==
    IF file.st = "missing" THEN [threw |-> FALSE, isNull |-> TRUE]
    ELSE IF file.st = "invalid" \/ ~validateManifest(file)
    THEN [threw |-> TRUE, isNull |-> FALSE]
    ELSE [threw |-> FALSE, isNull |-> FALSE]

\* the entries of a category, tagged with it
Tagged(cat, entries) ==
    [i \in 1..Len(entries) |-> [cat |-> cat, entry |-> entries[i]]]

\* the entries the command loops over: install takes skills then userSkills,
\* update takes skills
EntriesOf(cmd, manifest) ==
    IF cmd = "install"
    THEN Tagged("git", manifest.skills) \o Tagged("user", manifest.userSkills)
    ELSE Tagged("git", manifest.skills)

\* { global, ssh, customPath } of a turn
EntryOptions(entry) == [customPath |-> entry.path, ssh |-> FALSE, strategy |-> ""]

InitBatch ==
    /\ kind = "skill"
    /\ disk = {TmpRoot}
    /\ gitCall = NoGitCall
    /\ remote \in Repos("skill")
    /\ projectCfg \in {CfgInvalid, CfgOk(<<"claude", "cursor">>)}
    /\ fs = [p \in Locations |->
               IF p = LocalPath THEN Present(UnitFiles(kind, "p1", "")) ELSE Absent]
    /\ last = NoCall
    /\ \E cmd \in {"install", "update"}, file \in ManifestFiles :
          batch = [cmd |-> cmd, manifest |-> file, st |-> "start", todo |-> <<>>,
                   completed |-> <<>>, total |-> 0, fatalError |-> FALSE]
    /\ procs = NoProcs
    /\ calc = NoCalc

\* const manifest = await readManifest(); ... setTotal(count)
ReadManifest ==
    /\ batch.st = "start"
    /\ batch' =
         IF readManifest(batch.manifest).threw
         THEN [batch EXCEPT !.st = "rejected"]
         ELSE IF readManifest(batch.manifest).isNull
         THEN [batch EXCEPT !.st = "done", !.fatalError = TRUE]
         ELSE [batch EXCEPT
                 !.st = IF EntriesOf(batch.cmd, batch.manifest) = <<>>
                        THEN "done" ELSE "loop",
                 !.todo = EntriesOf(batch.cmd, batch.manifest),
                 !.total = Len(EntriesOf(batch.cmd, batch.manifest))]
    /\ UNCHANGED <<disk, gitCall, kind, fs, remote, projectCfg, last, procs, calc>>

\* the end of a turn: the engine call o rejected, which nothing catches, or
\* its line is appended to completed; after the last turn setDone(true)
Turn(o, rejected, line) ==
    /\ disk' = o.disk
    /\ fs' = o.fs
    /\ batch' =
         IF rejected THEN [batch EXCEPT !.st = "rejected"]
         ELSE [batch EXCEPT
                 !.completed = Append(batch.completed, line),
                 !.todo = Tail(batch.todo),
                 !.st = IF Tail(batch.todo) = <<>> THEN "done" ELSE "loop"]
    /\ UNCHANGED <<gitCall, kind, remote, projectCfg, last, procs, calc>>

InstallLine(name, o) ==
    [name |-> name, ok |-> o.report.success,
     detail |-> IF o.report.success THEN "paths" ELSE o.report.error.kind]

\* a turn of the first loop of InstallApp
InstallGitEntry ==
    /\ batch.cmd = "install" /\ batch.st = "loop"
    /\ batch.todo[1].cat = "git"
    /\ \E env \in InstallEnvs :
          \E o \in { installGitSkill(disk, fs,
                                     parseSource(batch.todo[1].entry.source).source,
                                     batch.todo[1].entry.name,
                                     EntryOptions(batch.todo[1].entry), env) } :
              Turn(o, o.report.threw, InstallLine(batch.todo[1].entry.name, o))

\* a turn of the second loop of InstallApp
InstallUserEntry ==
    /\ batch.cmd = "install" /\ batch.st = "loop"
    /\ batch.todo[1].cat = "user"
    /\ \E env \in LocalEnvs :
          \E o \in { installUserSkill(disk, fs,
                                      parseSource(batch.todo[1].entry.source).source,
                                      batch.todo[1].entry.name,
                                      EntryOptions(batch.todo[1].entry), env) } :
              Turn(o, o.report.threw, InstallLine(batch.todo[1].entry.name, o))

UpdateLineOf(name, o) ==
    [name |-> name, ok |-> o.report.status # "failed", detail |-> o.report.status]

\* a turn of the loop of UpdateApp
UpdateGitEntry ==
    /\ batch.cmd = "update" /\ batch.st = "loop"
    /\ \E envCheck \in CheckEnvs, envInstall \in InstallEnvs :
          \E o \in { updateEntry(disk, fs,
                                 parseSource(batch.todo[1].entry.source).source,
                                 batch.todo[1].entry.name,
                                 EntryOptions(batch.todo[1].entry),
                                 envCheck, envInstall) } :
              Turn(o, o.report.status = "rejected",
                   UpdateLineOf(batch.todo[1].entry.name, o))

NextBatch ==
    \/ ReadManifest
    \/ InstallGitEntry
    \/ InstallUserEntry
    \/ UpdateGitEntry

SpecBatch == InitBatch /\ [][NextBatch]_vars

\* the names of a sequence of entries or of result lines
EntryNames(entries) == [i \in 1..Len(entries) |-> entries[i].entry.name]
LineNames(lines) == [i \in 1..Len(lines) |-> lines[i].name]

\* C12 (as claimed): a batch over a manifest that was read reports every
\* entry exactly once, in manifest order, as success or failure; a failure of
\* one unit does not keep the later units from their turn; and the batch
\* reaches its done state with as many results as the manifest has entries.
\* Stated on finite runs: the async function of the command never ends short
\* of done once it has entered its loop, and done comes with one result per
\* entry. An install that rejects (see C1) ends the loop of the install
\* command where it stands: no result for that entry or the later ones, and
\* done is never set.
C12_Claimed_BatchReportsEveryEntry ==
    /\ batch.st = "rejected" => batch.total = 0
    /\ (batch.st = "done" /\ ~batch.fatalError) =>
           /\ LineNames(batch.completed) = EntryNames(EntriesOf(batch.cmd, batch.manifest))
           /\ Len(batch.completed) = batch.total

\* ---------------------------------------------------------------- SpecConc
\* Two engine operations on skills run at the same time, one for unit "u" and
\* one for unit "v". Each is an async function: its steps are what it does
\* between two awaits, and the steps of the two interleave freely.
\*   begin     resolveInstallDirs; a check also tests exists(localPath)
\*   clone     cloneRepo: mkdtemp and git clone, with the SSH retry
\*   discover  discoverSkills in the clone, and the selection
\*   copy      one turn of copyToAll: mkdir, rm, cp for the i-th target
\*   hash      hashDirectory of the selected unit and of the local copy
\*   cleanup   finally: cleanupTempDir(tempDir)
ConcNames == <<"u", "v">>
\* the repositories of the runs: "v" and "u" side by side, "u" alone at the
\* root, "u" alone in a directory
ConcRepos == { r \in Repos("skill") :
                 \/ Len(r) = 2 /\ r[1].name = "v" /\ r[2].name = "u"
                 \/ Len(r) = 1 /\ r[1].name = "u" /\ r[1].dir = RootDir
                 \/ Len(r) = 1 /\ r[1].name = "u" /\ r[1].dir = DirA
                               /\ r[1].files = UnitFiles("skill", "f1", "") }

ConcInstallEnvs ==
    { Env(Ok, Ok, "g1", "none", 0), Env(Ok, Ok, "g1", "cp", 1),
      Env(AuthFailure, Ok, "g1", "none", 0) }
ConcCheckEnvs ==
    { Env(Ok, Ok, "g1", "none", 0), Env(Ok, Ok, "g1", "discover", 0) }

NoClone == [ok |-> FALSE, dir |-> NoPath, created |-> {}]
NoReport == [threw |-> FALSE]

\* an operation that has not started
Op(op, name, source, options, env) ==
    [op |-> op, name |-> name, src |-> source, opts |-> options, env |-> env,
     pc |-> "begin", dirs |-> <<>>, c |-> NoClone, unit |-> NoUnit, i |-> 1,
     paths |-> <<>>, touched |-> {}, report |-> NoReport]

OpsFor(name) ==
    { Op("install", name, s, o, e) :
        s \in GitSources, o \in Options("skill"), e \in ConcInstallEnvs }
    \cup { Op("check", name, s, o, e) :
        s \in GitSources, o \in Options("skill"), e \in ConcCheckEnvs }

\* the units installed before the two operations start: none, or both units
\* in every target
ConcInstalled ==
    { [p \in Locations |->
         IF p = LocalPath THEN Present(UnitFiles("skill", "p1", "")) ELSE Absent],
      [p \in Locations |->
         IF p \in {LocalPath, MissingPath, ClaudeSettingsFile}
         THEN (IF p = LocalPath THEN Present(UnitFiles("skill", "p1", "")) ELSE Absent)
         ELSE Present(UnitFiles("skill", "f1", ""))] }

InitConc ==
    /\ kind = "skill"
    /\ disk = {TmpRoot}
    /\ gitCall = NoGitCall
    /\ remote \in ConcRepos
    /\ projectCfg \in {CfgInvalid, CfgOk(<<"claude", "cursor">>)}
    /\ fs \in ConcInstalled
    /\ last = NoCall
    /\ batch = NoBatch
    /\ \E a \in OpsFor(ConcNames[1]), b \in OpsFor(ConcNames[2]) :
          procs = [fs0 |-> fs, run |-> <<a, b>>]
    /\ calc = NoCalc

\* the operation p goes on as record r
Goes(p, r) == procs' = [procs EXCEPT !.run[p] = r]

\* the operation p returns or rejects with report
Ends(p, report) ==
    procs' = [procs EXCEPT !.run[p].pc = "done", !.run[p].report = report]

\* the operation p leaves its try block with report; finally comes next
Leaves(p, report) ==
    procs' = [procs EXCEPT !.run[p].pc = "cleanup", !.run[p].report = report]

LocalPathOf(r) == TargetPath(r.dirs[1], r.name)

\* installGitSkill line 21, checkSkillForUpdates lines 109-113
Begin(p) ==
    /\ procs.run[p].pc = "begin"
    /\ IF resolveInstallDirs(procs.run[p].opts).threw
       THEN Ends(p, Rejected(disk, fs, "ConfigError", {}).report)
       ELSE IF /\ procs.run[p].op = "check"
               /\ ~exists(fs, TargetPath(resolveInstallDirs(procs.run[p].opts).dirs[1],
                                         procs.run[p].name))
       THEN Ends(p, NullResult({}))
       ELSE Goes(p, [procs.run[p] EXCEPT
                       !.pc = "clone",
                       !.dirs = resolveInstallDirs(procs.run[p].opts).dirs])
    /\ UNCHANGED <<disk, gitCall, kind, fs, remote, projectCfg, last, batch, calc>>

\* the clone c of operation r has come back
Cloned(p, r, c) ==
    /\ disk' = c.disk
    /\ IF c.ok
       THEN Goes(p, [r EXCEPT !.pc = "discover",
                              !.c = [ok |-> TRUE, dir |-> c.dir, created |-> Created(c)]])
       ELSE IF r.op = "install"
       THEN Ends(p, Failed(c.disk, fs, Err("GitCloneError", <<>>), Created(c),
                           NoUnit, {}).report)
       ELSE Ends(p, Rejected(c.disk, fs, "GitCloneError", Created(c)).report)

\* tempDir = await cloneRepo(source.url, source.ref, { ssh })
Clone(p) ==
    /\ procs.run[p].pc = "clone"
    /\ Cloned(p, procs.run[p],
              cloneRepo(disk, procs.run[p].src.url, procs.run[p].opts.ssh,
                        procs.run[p].env.o1, procs.run[p].env.o2))
    /\ UNCHANGED <<gitCall, kind, fs, remote, projectCfg, last, batch, calc>>

\* the clone of operation r is still where cloneRepo put it
CloneThere(r) == TreeOf(r.c.dir) \in disk

\* the discovery of operation r has found units and unit was selected
Selected(p, r, units, unit) ==
    IF ~CloneThere(r) \/ r.env.step = "discover"
    THEN IF r.op = "install"
         THEN Leaves(p, Failed(disk, fs, Err("WalkError", <<>>), r.c.created,
                               NoUnit, {}).report)
         ELSE Leaves(p, Rejected(disk, fs, "WalkError", r.c.created).report)
    ELSE IF unit = NoUnit
    THEN IF r.op = "install"
         THEN Leaves(p, Failed(disk, fs, Err("NotFound", Names(units)), r.c.created,
                               NoUnit, {}).report)
         ELSE Leaves(p, NullResult(r.c.created))
    ELSE Goes(p, [r EXCEPT !.pc = IF r.op = "install" THEN "copy" ELSE "hash",
                           !.unit = unit])

\* const skills = await discoverSkills(tempDir, source.subpath); the selection
Discover(p) ==
    /\ procs.run[p].pc = "discover"
    /\ Selected(p, procs.run[p], discoverUnits(remote, procs.run[p].src.subpath),
                selectUnit(discoverUnits(remote, procs.run[p].src.subpath),
                           procs.run[p].name))
    /\ UNCHANGED <<disk, gitCall, kind, fs, remote, projectCfg, last, batch, calc>>

\* one turn of the loop of copyToAll for operation r, on target targetPath
CopyTurn(p, r, targetPath) ==
    IF r.env.failAt = r.i /\ r.env.step = "mkdir"
    THEN /\ fs' = fs
         /\ Leaves(p, Failed(disk, fs, Err("IOError", <<>>), r.c.created, r.unit,
                             r.touched).report)
    ELSE IF ~CloneThere(r) \/ (r.env.failAt = r.i /\ r.env.step = "cp")
    THEN /\ fs' = [fs EXCEPT ![targetPath] = Absent]
         /\ Leaves(p, Failed(disk, fs, Err("IOError", <<>>), r.c.created, r.unit,
                             r.touched \cup {targetPath}).report)
    ELSE /\ fs' = [fs EXCEPT ![targetPath] =
                     Present(FilesAt(remote, r.unit, r.env.stamp))]
         /\ IF r.i = Len(r.dirs)
            THEN Leaves(p, Report(FALSE, TRUE, NoErr, Append(r.paths, targetPath),
                                  r.c.created, r.unit, r.touched \cup {targetPath}))
            ELSE Goes(p, [r EXCEPT !.i = r.i + 1,
                                   !.paths = Append(r.paths, targetPath),
                                   !.touched = r.touched \cup {targetPath}])

Copy(p) ==
    /\ procs.run[p].pc = "copy"
    /\ CopyTurn(p, procs.run[p],
                TargetPath(procs.run[p].dirs[procs.run[p].i], procs.run[p].name))
    /\ UNCHANGED <<disk, gitCall, kind, remote, projectCfg, last, batch, calc>>

\* Promise.all([hashDirectory(skill.path), hashDirectory(localPath)]), diffHashes
Hash(p) ==
    /\ procs.run[p].pc = "hash"
    /\ Leaves(p, [Report(FALSE, FALSE, NoErr, <<>>, procs.run[p].c.created,
                         procs.run[p].unit, {})
                    EXCEPT !.diff = UpToDate(diffHashes(
                        hashDirectory(fs[LocalPathOf(procs.run[p])]),
                        hashDirectory(IF CloneThere(procs.run[p])
                                      THEN Present(FilesAt(remote, procs.run[p].unit,
                                                           procs.run[p].env.stamp))
                                      ELSE Absent)))])
    /\ UNCHANGED <<disk, gitCall, kind, fs, remote, projectCfg, last, batch, calc>>

\* finally { if (tempDir) await cleanupTempDir(tempDir).catch(() => {}) }
Cleanup(p) ==
    /\ procs.run[p].pc = "cleanup"
    /\ disk' = cleanupTempDir(disk, procs.run[p].c.dir).disk
    /\ procs' = [procs EXCEPT !.run[p].pc = "done"]
    /\ UNCHANGED <<gitCall, kind, fs, remote, projectCfg, last, batch, calc>>

NextConc ==
    \E p \in {1, 2} :
        \/ Begin(p)
        \/ Clone(p)
        \/ Discover(p)
        \/ Copy(p)
        \/ Hash(p)
        \/ Cleanup(p)

SpecConc == InitConc /\ [][NextConc]_vars

\* the operation holds a temp directory: cloneRepo handed it one and its
\* finally has not run
Holds(r) == r.pc \in {"discover", "copy", "hash", "cleanup"}

\* what the caller sees of a report: all but the names of the temp directories
Visible(report) == [report EXCEPT !.created = {}]

\* the call of operation r, made alone on disk d and unit directories f
Alone(r, d, f) ==
    IF r.op = "install" THEN installGitSkill(d, f, r.src, r.name, r.opts, r.env)
    ELSE checkForUpdates(d, f, r.src, r.name, r.opts, r.env)

\* the two operations made one after the other leave what the two, run
\* together, have left: o1 is the outcome of the first, o2 of the second
SameAsInOrder(first, second, o1, o2) ==
    /\ Visible(first.report) = Visible(o1.report)
    /\ Visible(second.report) = Visible(o2.report)
    /\ fs = o2.fs
    /\ disk = o2.disk

InOrder(first, second, o1) ==
    SameAsInOrder(first, second, o1, Alone(second, o1.disk, o1.fs))

\* C13: operations for different units that run at the same time each hold a
\* temp directory of their own, which is still there, untouched by the other,
\* until their own finally removes it; and when both have ended, their
\* results and the unit directories are those of running the two one after
\* the other.
C13_ConcurrentOperationsAreIsolated ==
    /\ \A p \in {1, 2} :
          Holds(procs.run[p]) =>
              /\ TreeOf(procs.run[p].c.dir) \in disk
              /\ \A q \in {1, 2} \ {p} :
                    Holds(procs.run[q]) => procs.run[q].c.dir # procs.run[p].c.dir
    /\ (procs.run[1].pc = "done" /\ procs.run[2].pc = "done") =>
          /\ InOrder(procs.run[1], procs.run[2],
                     Alone(procs.run[1], {TmpRoot}, procs.fs0))
          /\ InOrder(procs.run[2], procs.run[1],
                     Alone(procs.run[2], {TmpRoot}, procs.fs0))

\* both operations held a temp directory at the same time, an install of "v"
\* wrote while a check of "u" was under way, and both have ended
C13_Witness ==
    /\ procs.run[1].pc = "done" /\ procs.run[2].pc = "done"
    /\ procs.run[1].op = "check" /\ procs.run[2].op = "install"
    /\ ~procs.run[1].report.threw /\ ~procs.run[1].report.isNull
    /\ procs.run[2].report.success
    /\ procs.run[1].c.dir # procs.run[2].c.dir
    /\ procs.run[1].c.dir # NoPath /\ procs.run[2].c.dir # NoPath
    /\ procs.run[1].env.o1 = Ok /\ procs.run[2].env.o1 = Ok

\* ---------------------------------------------------------------- SpecCopy
\* The copy strategy applied again and again: copyToAll(sourcePath, name,
\* installDirs) with the same arguments, on a source nobody changes, as an
\* install followed by installs of the same unit does.
MaxApply == 2

\* the sources of a copy: a unit directory of a clone, a clone as a whole,
\* a local directory
CopySources ==
    { InClone(UnitFiles("skill", "f1", "")),
      InClone(UnitFiles("settings", "f2", "merge")),
      InClone(GitFiles("g1") \cup UnitFiles("skill", "f1", "")),
      OnDisk(LocalPath), OnDisk(MissingPath) }

CopyDirs ==
    { <<AgentDir("claude")>>, <<AgentDir("claude"), AgentDir("cursor")>>,
      <<CustomPath>> }

\* what the targets hold before the first application
CopyBefore ==
    { [p \in Locations |->
         IF p = LocalPath THEN Present(UnitFiles("skill", "p1", ""))
         ELSE IF p \in S THEN Present(UnitFiles("skill", "old", "")) ELSE Absent] :
      S \in SUBSET { TargetPath(AgentDir(a), "u") : a \in {"claude", "cursor"} } }

InitCopy ==
    /\ kind = "skill"
    /\ disk = {TmpRoot}
    /\ gitCall = NoGitCall
    /\ remote = <<>>
    /\ projectCfg = CfgMissing
    /\ fs \in CopyBefore
    /\ last = NoCall
    /\ batch = NoBatch
    /\ procs = NoProcs
    /\ \E src \in CopySources, dirs \in CopyDirs :
          calc = [fn |-> "copyToAll", src |-> src, name |-> "u", dirs |-> dirs,
                  applied |-> 0, ok |-> TRUE, paths |-> <<>>,
                  before |-> fs, once |-> fs]

\* the application ap has returned or thrown
CopyApplied(ap) ==
    /\ fs' = ap.fs
    /\ calc' = [calc EXCEPT !.applied = calc.applied + 1,
                            !.ok = calc.ok /\ ap.ok,
                            !.paths = ap.paths,
                            !.once = IF calc.applied = 0 THEN ap.fs ELSE calc.once]

ApplyCopy ==
    /\ calc.fn = "copyToAll"
    /\ calc.applied < MaxApply
    /\ \E env \in LocalEnvs :
          CopyApplied(copyToAll(fs, calc.src, calc.name, calc.dirs, env))
    /\ UNCHANGED <<disk, gitCall, kind, remote, projectCfg, last, batch, procs>>

NextCopy == ApplyCopy

SpecCopy == InitCopy /\ [][NextCopy]_vars

\* C16: the copy strategy applied twice in a row, or more often, on an
\* unchanged source, every application going through, leaves every
\* target/unitName, and everything else, exactly as the first application
\* left it: the copy of the source.
C16_CopyTwiceIsCopyOnce ==
    (calc.fn = "copyToAll" /\ calc.applied >= 2 /\ calc.ok) =>
        /\ fs = calc.once
        /\ \A i \in 1..Len(calc.dirs) :
              fs[TargetPath(calc.dirs[i], calc.name)] = SourceState(fs, calc.src)

\* applied twice over targets of which one held an older copy
C16_Witness ==
    /\ calc.fn = "copyToAll"
    /\ calc.applied = 2
    /\ calc.ok
    /\ Len(calc.dirs) = 2
    /\ calc.before[TargetPath(calc.dirs[1], calc.name)].present
    /\ ~calc.before[TargetPath(calc.dirs[2], calc.name)].present
    /\ calc.once # calc.before

\* ---------------------------------------------------------------- SpecMerge
\* deepMerge on its own: a target and a source drawn from the JSON objects,
\* and the call.
InitMerge ==
    /\ kind = "settings"
    /\ disk = {TmpRoot}
    /\ gitCall = NoGitCall
    /\ remote = <<>>
    /\ projectCfg = CfgOk(<<"claude">>)
    /\ fs = [p \in Locations |-> Absent]
    /\ last = NoCall
    /\ batch = NoBatch
    /\ procs = NoProcs
    /\ \E target \in JsonObjects, source \in JsonObjects :
          calc = [fn |-> "deepMerge", target |-> target, source |-> source,
                  done |-> FALSE, result |-> EmptyObject]

DeepMerge ==
    /\ calc.fn = "deepMerge"
    /\ ~calc.done
    /\ calc' = [calc EXCEPT !.done = TRUE,
                            !.result = deepMerge(calc.target, calc.source)]
    /\ UNCHANGED <<disk, gitCall, kind, fs, remote, projectCfg, last, batch, procs>>

NextMerge == DeepMerge

SpecMerge == InitMerge /\ [][NextMerge]_vars

\* two items are duplicates of each other: objects (arrays too) with the same
\* serialization, or equal values otherwise
Duplicates(a, b) ==
    IF a.t \in {"obj", "arr"} /\ b.t \in {"obj", "arr"}
    THEN stringify(a) = stringify(b)
    ELSE a = b

\* the items without those that have a duplicate before them
WithoutLaterDuplicates(items) ==
    SelectSeq([i \in 1..Len(items) |->
                  [item |-> items[i],
                   dup |-> \E j \in 1..(i - 1) : Duplicates(items[j], items[i])]],
              LAMBDA x : ~x.dup)

\* the merge rule as stated, member by member
RECURSIVE ClaimedMerge(_, _)
ClaimedValue(tgtVal, srcVal) ==
    IF tgtVal.t = "arr" /\ srcVal.t = "arr"
    THEN JArr([i \in 1..Len(WithoutLaterDuplicates(tgtVal.items \o srcVal.items)) |->
                  WithoutLaterDuplicates(tgtVal.items \o srcVal.items)[i].item])
    ELSE IF tgtVal.t = "obj" /\ srcVal.t = "obj" THEN ClaimedMerge(tgtVal, srcVal)
    ELSE srcVal
ClaimedMerge(target, source) ==
    JObj([i \in 1..Len(target.items) |->
             IF HasKey(source, target.items[i].s)
             THEN Mem(target.items[i].s,
                      ClaimedValue(target.items[i].items[1],
                                   ValueAt(source, target.items[i].s)))
             ELSE target.items[i]]
         \o SelectSeq(source.items, LAMBDA m : ~HasKey(target, m.s)))

\* C17 (as claimed): deepMerge(target, source) is the merge by the rule: two
\* arrays give the target's items followed by the source's with later
\* duplicates removed, two objects merge by the same rule, otherwise the
\* source value replaces, and the keys of target alone stay. The
\* deduplication remembers an object by its serialization and a string by
\* itself, so a string that spells an earlier object is removed with no
\* duplicate before it.
C17_Claimed_DeepMergeByTheRule ==
    (calc.fn = "deepMerge" /\ calc.done) =>
        calc.result = ClaimedMerge(calc.target, calc.source)

\* the worked example: {a:[1,2], b:{x:1}} with {a:[2,3], b:{y:2}, c:5}
C17_Example ==
    (calc.fn = "deepMerge" /\ calc.done
     /\ calc.target = ExistingSettings /\ calc.source = SourceSettings) =>
        stringify(calc.result) = "{\"a\":[1,2,3],\"b\":{\"x\":1,\"y\":2},\"c\":5}"

\* the rule holds whenever no string among the items spells an object
C17_RuleButForSpelledObjects ==
    (calc.fn = "deepMerge" /\ calc.done
     /\ HookText \notin {calc.target, calc.source}) =>
        calc.result = ClaimedMerge(calc.target, calc.source)

\* ---------------------------------------------------------------- SpecApply
\* applySettings with the merge or the replace strategy, applied again and
\* again with the same package, over a settings file that is absent, holds
\* no JSON, or holds settings.
Package(jsonFiles) ==
    InClone({ <<<<"SETTINGS.md">>, <<"frontmatter", "merge">>>> } \cup jsonFiles)

ApplySources ==
    { Package({ <<<<"data.json">>, JsonText(SourceSettings)>> }),
      Package({ <<<<"data.json">>, JsonText(HookText)>> }),
      Package({ <<<<"data.json">>, NotJson>> }),
      Package({ <<<<"data.json">>, JsonText(SourceSettings)>>,
                <<<<"extra.json">>, JsonText(NestedSource)>> }),
      Package({ <<<<"data.json">>, JsonText(PayloadData("f1"))>>,
                <<<<"notes.json">>, NotJson>>,
                <<<<".hidden.json">>, JsonText(ScalarSettings)>>,
                <<<<"sub", "data.json">>, JsonText(RepeatedItems)>> }) }

\* what the agent's settings file holds before the first application
ApplyBefore ==
    { Absent, FileOf(NotJson), FileOf(JsonText(ExistingSettings)),
      FileOf(JsonText(HookSettings)), FileOf(JsonText(EmptyObject)) }

ApplyOptions == [customPath |-> NoPath, ssh |-> FALSE, strategy |-> ""]

InitApply ==
    /\ kind = "settings"
    /\ disk = {TmpRoot}
    /\ gitCall = NoGitCall
    /\ remote = <<>>
    /\ projectCfg \in {CfgOk(<<"claude">>), CfgOk(<<"cursor", "claude">>)}
    /\ \E before \in ApplyBefore :
          fs = [p \in Locations |-> IF p = ClaudeSettingsFile THEN before ELSE Absent]
    /\ last = NoCall
    /\ batch = NoBatch
    /\ procs = NoProcs
    /\ \E src \in ApplySources, strategy \in {"merge", "replace"} :
          calc = [fn |-> "applySettings", src |-> src, name |-> "u",
                  strategy |-> strategy, applied |-> 0, ok |-> TRUE,
                  paths |-> <<>>, before |-> fs, once |-> fs]

\* the application ap has returned or thrown
SettingsApplied(ap) ==
    /\ fs' = ap.fs
    /\ calc' = [calc EXCEPT !.applied = calc.applied + 1,
                            !.ok = calc.ok /\ ap.ok,
                            !.paths = ap.paths,
                            !.once = IF calc.applied = 0 THEN ap.fs ELSE calc.once]

ApplySettings ==
    /\ calc.fn = "applySettings"
    /\ calc.applied < MaxApply
    /\ SettingsApplied(applySettings(fs, calc.src, calc.name, calc.strategy,
                                     ApplyOptions, Env(Ok, Ok, "g1", "none", 0)))
    /\ UNCHANGED <<disk, gitCall, kind, remote, projectCfg, last, batch, procs>>

NextApply == ApplySettings

SpecApply == InitApply /\ [][NextApply]_vars

\* the JSON files of the package whose text parses, in the order of the loop
SourceData(src) ==
    SelectSeq(SeqOf(findJsonFiles(SourceState(fs, src))),
              LAMBDA file : ~ParseJson(file[2]).threw)

\* the sources merged one after the other into data
RECURSIVE MergedInto(_, _, _)
MergedInto(data, sources, j) ==
    IF j > Len(sources) THEN data
    ELSE MergedInto(deepMerge(data, ParseJson(sources[j][2]).value), sources, j + 1)

\* the settings file was absent, or held no JSON, before the first application
NothingToMergeWith ==
    \/ ~calc.before[ClaudeSettingsFile].present
    \/ TextOf(calc.before[ClaudeSettingsFile]) = NotJson

\* C18: under the merge strategy a settings file that is absent or holds no
\* JSON counts as {}: the operation succeeds, and with a package of one JSON
\* file the settings file then holds that file's data, deepMerge({}, source);
\* with several, the sources merged one after the other into {}.
C18_AbsentOrUnparseableTargetIsEmptyObject ==
    (calc.fn = "applySettings" /\ calc.strategy = "merge" /\ calc.applied = 1
     /\ NothingToMergeWith /\ Len(SourceData(calc.src)) > 0) =>
        /\ calc.ok
        /\ calc.paths # <<>>
        /\ fs[ClaudeSettingsFile] =
               FileOf(JsonText(MergedInto(EmptyObject, SourceData(calc.src), 1)))
        /\ Len(SourceData(calc.src)) = 1 =>
               /\ fs[ClaudeSettingsFile] = FileOf(SourceData(calc.src)[1][2])
               /\ ParseJson(TextOf(fs[ClaudeSettingsFile])).value =
                      deepMerge(EmptyObject, ParseJson(SourceData(calc.src)[1][2]).value)

\* a settings file that held no JSON holds the package's one source
C18_Witness ==
    /\ calc.fn = "applySettings"
    /\ calc.strategy = "merge"
    /\ calc.applied = 1
    /\ calc.before[ClaudeSettingsFile] = FileOf(NotJson)
    /\ Len(SourceData(calc.src)) = 1
    /\ fs[ClaudeSettingsFile] = FileOf(JsonText(SourceSettings))

\* ---------------------------------------------------------------- SpecDiff
\* diffHashes on its own: two maps from relative paths to digests, and the
\* call.
HashPaths == { <<"SKILL.md">>, <<"data.json">>, <<"sub", "x">> }
HashContents == {"c1", "c2"}

\* the maps: every path has no entry or the digest of some content
HashMaps ==
    { { <<p, Sha256(c[p])>> : p \in S } :
        S \in SUBSET HashPaths, c \in [HashPaths -> HashContents] }

InitDiff ==
    /\ kind = "skill"
    /\ disk = {TmpRoot}
    /\ gitCall = NoGitCall
    /\ remote = <<>>
    /\ projectCfg = CfgMissing
    /\ fs = [p \in Locations |-> Absent]
    /\ last = NoCall
    /\ batch = NoBatch
    /\ procs = NoProcs
    /\ \E local \in HashMaps, rem \in HashMaps :
          calc = [fn |-> "diffHashes", local |-> local, remote |-> rem,
                  done |-> FALSE,
                  result |-> [added |-> {}, changed |-> {}, removed |-> {}]]

DiffHashes ==
    /\ calc.fn = "diffHashes"
    /\ ~calc.done
    /\ calc' = [calc EXCEPT !.done = TRUE,
                            !.result = diffHashes(calc.local, calc.remote)]
    /\ UNCHANGED <<disk, gitCall, kind, fs, remote, projectCfg, last, batch, procs>>

NextDiff == DiffHashes

SpecDiff == InitDiff /\ [][NextDiff]_vars

\* the map has an entry for the path; the digests a map has for it
InMap(map, p) == \E e \in map : e[1] = p
DigestsAt(map, p) == { e[2] : e \in { x \in map : x[1] = p } }

\* C19: diffHashes(local, remote) gives as added exactly the keys of remote
\* that local has not, as removed exactly the keys of local that remote has
\* not, and as changed exactly the keys of both whose digests differ; so a
\* map compared with itself gives three empty sets.
C19_DiffHashesPartitionsTheKeys ==
    (calc.fn = "diffHashes" /\ calc.done) =>
        /\ \A p \in HashPaths :
              /\ p \in calc.result.added <=>
                     (InMap(calc.remote, p) /\ ~InMap(calc.local, p))
              /\ p \in calc.result.removed <=>
                     (InMap(calc.local, p) /\ ~InMap(calc.remote, p))
              /\ p \in calc.result.changed <=>
                     /\ InMap(calc.local, p)
                     /\ InMap(calc.remote, p)
                     /\ DigestsAt(calc.local, p) # DigestsAt(calc.remote, p)
        /\ calc.result.added \cup calc.result.removed \cup calc.result.changed
               \subseteq HashPaths
        /\ calc.local = calc.remote =>
               /\ calc.result.added = {}
               /\ calc.result.removed = {}
               /\ calc.result.changed = {}

\* one file added, one removed and one changed
C19_Witness ==
    /\ calc.fn = "diffHashes"
    /\ calc.done
    /\ calc.result.added = { <<"SKILL.md">> }
    /\ calc.result.removed = { <<"sub", "x">> }
    /\ calc.result.changed = { <<"data.json">> }

\* a map with entries compared with itself
C19_WitnessSame ==
    /\ calc.fn = "diffHashes"
    /\ calc.done
    /\ calc.local = calc.remote
    /\ Cardinality(calc.local) = 3

\* ---------------------------------------------------------------- SpecHash
\* hashDirectory on its own: a directory, as a clone or an installed copy can
\* be, and the call.
TreePaths == { <<"SKILL.md">>, <<"sub", "x">>, <<"sub", "deep", "y">> }
TreeLinks ==
    { {}, { <<<<"ln">>, "file", "c1">> }, { <<<<"sub", "ln">>, "dir", "">> },
      { <<<<"ln">>, "missing", "">> } }
TreeLocks == { {}, { <<>> }, { <<"sub">> }, { <<"SKILL.md">> } }

Trees ==
    { Tree({ <<p, c[p]>> : p \in S }, links, locked) :
        S \in SUBSET TreePaths, c \in [TreePaths -> HashContents],
        links \in TreeLinks, locked \in TreeLocks }
    \cup { [present |-> FALSE, files |-> {}, links |-> {}, locked |-> {}] }

InitHash ==
    /\ kind = "skill"
    /\ disk = {TmpRoot}
    /\ gitCall = NoGitCall
    /\ remote = <<>>
    /\ projectCfg = CfgMissing
    /\ fs = [p \in Locations |-> Absent]
    /\ last = NoCall
    /\ batch = NoBatch
    /\ procs = NoProcs
    /\ \E dir \in Trees :
          calc = [fn |-> "hashDirectory", dir |-> dir, done |-> FALSE,
                  threw |-> FALSE, result |-> {}]

HashDirectory ==
    /\ calc.fn = "hashDirectory"
    /\ ~calc.done
    /\ calc' = [calc EXCEPT !.done = TRUE,
                            !.threw = walkAndHash(calc.dir, <<>>).threw,
                            !.result = IF walkAndHash(calc.dir, <<>>).threw THEN {}
                                       ELSE hashDirectory(calc.dir)]
    /\ UNCHANGED <<disk, gitCall, kind, fs, remote, projectCfg, last, batch, procs>>

NextHash == HashDirectory

SpecHash == InitHash /\ [][NextHash]_vars

\* the directory does not exist or cannot be read
NoDirectory(dir) == ~dir.present \/ <<>> \in dir.locked

\* C20 (as claimed): hashDirectory(dir) returns a map with exactly one entry
\* per regular file under dir, at any depth, and none for anything else; for
\* a dir that does not exist or cannot be read it returns the empty map; it
\* does not raise. A directory below dir that cannot be read is skipped with
\* its files, and an entry that is no directory is read as a file, which
\* throws for a link to a directory, a dangling link and an unreadable file.
C20_Claimed_OneEntryPerRegularFile ==
    (calc.fn = "hashDirectory" /\ calc.done) =>
        /\ ~calc.threw
        /\ IF NoDirectory(calc.dir) THEN calc.result = {}
           ELSE calc.result = { <<f[1], Sha256(f[2])>> : f \in calc.dir.files }

\* the claim holds for the directories that hold readable regular files and
\* readable directories only, and for the missing or unreadable dir
C20_RegularReadableTree ==
    (calc.fn = "hashDirectory" /\ calc.done
     /\ calc.dir.links = {} /\ calc.dir.locked \subseteq { <<>> }) =>
        /\ ~calc.threw
        /\ IF NoDirectory(calc.dir) THEN calc.result = {}
           ELSE calc.result = { <<f[1], Sha256(f[2])>> : f \in calc.dir.files }

\* a regular file under a directory that cannot be read has no entry
C20_SkippedFile ==
    /\ calc.fn = "hashDirectory"
    /\ calc.done
    /\ ~calc.threw
    /\ calc.dir.links = {}
    /\ \E f \in calc.dir.files :
          <<"sub">> \in calc.dir.locked /\ f[1] \notin { e[1] : e \in calc.result }

\* the call raises on a link to a directory
C20_Raised ==
    /\ calc.fn = "hashDirectory"
    /\ calc.done
    /\ calc.threw
    /\ calc.dir.locked = {}
    /\ calc.dir.links = { <<<<"sub", "ln">>, "dir", "">> }

(***************************************************************************)
(* The troubleshooting guide of a failed clone, under SpecGit.              *)
(***************************************************************************)
\* the transport a clone of the URL goes over (GitCloneError.getAuthType)
TransportOf(url) == IF url.proto \in {"git@", "ssh://"} THEN "ssh" ELSE "https"

\* the transports of the attempts the call made
Attempted(call) == { TransportOf(call.attempts[i].url) : i \in 1..Len(call.attempts) }

\* the call failed with an authentication-class error or a timeout
FailedWithGuide(call) ==
    /\ call.op = "cloneRepo"
    /\ ~call.ok
    /\ call.err.isTimeout \/ call.err.isAuthError

\* C21 (as claimed): a clone that fails with an authentication-class error
\* or a timeout carries the guide for the transports its attempts went over:
\* HTTPS alone gives the credential steps and no SSH-key steps, SSH alone the
\* SSH-key steps and no credential steps, HTTPS and then SSH both and the
\* SSO note. The guide is chosen by the mode of the call, not by the URLs
\* cloned: an SSH URL cloned in the default mode gets the HTTPS guide, and
\* an HTTPS URL of another host cloned with ssh set gets the SSH guide.
C21_Claimed_GuideMatchesTransports ==
    FailedWithGuide(gitCall) =>
        /\ Attempted(gitCall) = {"https"} =>
               gitCall.err.guide = {"verify", "gh-auth"}
        /\ Attempted(gitCall) = {"ssh"} =>
               gitCall.err.guide = {"verify", "ssh-key"}
        /\ Attempted(gitCall) = {"https", "ssh"} =>
               gitCall.err.guide = {"verify", "gh-auth", "ssh-key", "sso"}

\* the guide does match the mode: the label the last attempt was made under,
\* or "https" when no retry was possible
C21_GuideMatchesMode ==
    FailedWithGuide(gitCall) =>
        gitCall.err.guide =
            formatAuthTroubleshootingGuide(
                gitCall.url, gitCall.attempts[Len(gitCall.attempts)].tried)

\* for an https URL of github.com or gitlab.com the guide matches the
\* transports attempted
C21_WellKnownHttpsGuide ==
    (FailedWithGuide(gitCall) /\ WellKnownHttps(gitCall.url)) =>
        /\ Attempted(gitCall) = {"https"} =>
               gitCall.err.guide = {"verify", "gh-auth"}
        /\ Attempted(gitCall) = {"ssh"} =>
               gitCall.err.guide = {"verify", "ssh-key"}
        /\ Attempted(gitCall) = {"https", "ssh"} =>
               gitCall.err.guide = {"verify", "gh-auth", "ssh-key", "sso"}

\* ---------------------------------------------------------------- SpecDiscover
\* discoverSkills / discoverSettings on its own: a directory tree with marker
\* files in some of its directories, a subpath, and the call. A marker is
\* [dir, header]: the directory it lies in, as the names from the root down,
\* and what its frontmatter holds.
MAX_DEPTH == 3

\* a frontmatter: whether gray-matter parses it, the name and the description
\* it then gives (any YAML value, NoValue for none), and the text the regular
\* expressions of the fallback capture, trimmed ("" for no match)
Header(parses, name, description, nameText, descriptionText) ==
    [parses |-> parses, name |-> name, description |-> description,
     nameText |-> nameText, descriptionText |-> descriptionText]

Headers ==
    { Header(TRUE, JStr("u"), JStr("d"), "u", "d"),
      Header(TRUE, NoValue, JStr("d"), "", "d"),
      Header(TRUE, JStr("u"), NoValue, "u", ""),
      Header(TRUE, NoValue, NoValue, "", ""),
      Header(FALSE, NoValue, NoValue, "u", "d"),
      Header(FALSE, NoValue, NoValue, "u", ""),
      Header(TRUE, JStr(""), JStr("d"), "\"\"", "d"),
      Header(TRUE, JArr(<<>>), JStr("d"), "[]", "d"),
      Header(TRUE, JNum("7"), JArr(<<JStr("x"), JStr("y")>>), "7", "[x, y]") }

\* !value is false; String(value)
Truthy(value) ==
    \/ value.t \in {"arr", "obj"}
    \/ value.t = "str" /\ value.s # ""
    \/ value.t = "num" /\ value.s # "0"

RECURSIVE String(_)
RECURSIVE JoinStrings(_, _)
JoinStrings(items, i) ==
    IF i > Len(items) THEN ""
    ELSE (IF i > 1 THEN "," ELSE "") \o String(items[i]) \o JoinStrings(items, i + 1)
String(value) ==
    IF value.t \in {"str", "num"} THEN value.s
    ELSE IF value.t = "arr" THEN JoinStrings(value.items, 1)
    ELSE IF value.t = "obj" THEN "[object Object]"
    ELSE value.t

\* extractFrontmatterFields(content): a field is set when its expression matches
extractFrontmatterFields(header) ==
    [name |-> IF header.nameText # "" THEN JStr(header.nameText) ELSE NoValue,
     description |-> IF header.descriptionText # "" THEN JStr(header.descriptionText)
                     ELSE NoValue]

\* data after matter(content), or after its catch, and after the fallback
FrontmatterData(header) ==
    IF ~header.parses THEN extractFrontmatterFields(header)
    ELSE IF (~Truthy(header.name) \/ ~Truthy(header.description))
            /\ Truthy(extractFrontmatterFields(header).name)
            /\ Truthy(extractFrontmatterFields(header).description)
    THEN extractFrontmatterFields(header)
    ELSE [name |-> header.name, description |-> header.description]

\* parseSkillFile(filePath) / parseSettingsFile: a unit, or null
NoSkill == [isNull |-> TRUE, name |-> "", description |-> "", path |-> <<>>]
parseSkillFile(marker) ==
    IF ~Truthy(FrontmatterData(marker.header).name)
       \/ ~Truthy(FrontmatterData(marker.header).description)
    THEN NoSkill
    ELSE [isNull |-> FALSE,
          name |-> String(FrontmatterData(marker.header).name),
          description |-> String(FrontmatterData(marker.header).description),
          path |-> marker.dir]

\* entry.name.startsWith('.') || entry.name.startsWith('_')
SkippedNames == {".h", "_i"}

\* readdir(dirPath): the names of the directories in it, and the marker's name
\* when the directory holds one
IsUnder(dir, dirPath) ==
    Len(dir) > Len(dirPath) /\ SubSeq(dir, 1, Len(dirPath)) = dirPath
DirNames(tree, dirPath) ==
    { m.dir[Len(dirPath) + 1] : m \in { x \in tree : IsUnder(x.dir, dirPath) } }
readdir(tree, dirPath) ==
    DirNames(tree, dirPath)
    \cup (IF \E m \in tree : m.dir = dirPath THEN {Marker(kind)} ELSE {})

\* a walk that goes one level deeper
RECURSIVE findSkillFiles_deeper(_, _, _)
findSkillFiles_deeper(tree, dirPath, depth) ==
    IF depth > MAX_DEPTH + 1 THEN {}
    ELSE { m \in tree : m.dir = dirPath }
         \cup UNION { findSkillFiles_deeper(tree, Append(dirPath, name), depth + 1) :
                        name \in DirNames(tree, dirPath) \ SkippedNames }

\* findSkillFiles(dirPath, depth) / findSettingsFiles: the markers found, each
\* standing for the path of its file
RECURSIVE findSkillFiles(_, _, _)
findSkillFiles(tree, dirPath, depth) ==
    IF depth > MAX_DEPTH THEN {}
    ELSE UNION { IF name \in DirNames(tree, dirPath)
                 THEN findSkillFiles(tree, Append(dirPath, name), depth + 1)
                 ELSE { m \in tree : m.dir = dirPath } :
                 name \in readdir(tree, dirPath) \ SkippedNames }

\* discoverSkills(rootPath, subpath) / discoverSettings: the units of the
\* markers found under join(rootPath, subpath) that parse
discoverSkills(tree, subpath) ==
    { parseSkillFile(m) : m \in findSkillFiles(tree, subpath, 0) } \ {NoSkill}

\* the directories a tree may hold markers in
MarkerDirs ==
    { <<>>, <<"a">>, <<"a", "b">>, <<"a", "b", "c">>, <<"a", "b", "c", "d">>,
      <<".h">>, <<"a", "_i">>, <<"a", ".h", "c">>, <<"_i", "b">> }
Subpaths == { <<>>, <<"a">>, <<".h">>, <<"a", "b", "c">> }

MaxMarkers == 2
MarkerTrees ==
    { { [dir |-> d, header |-> h[d]] : d \in S } :
        S \in { X \in SUBSET MarkerDirs : Cardinality(X) <= MaxMarkers },
        h \in [MarkerDirs -> { Header(TRUE, JStr("u"), JStr("d"), "u", "d"),
                               Header(TRUE, NoValue, JStr("d"), "", "d") }] }
    \cup { { [dir |-> <<"a">>, header |-> h] } : h \in Headers }

InitDiscover ==
    /\ kind \in {"skill", "settings"}
    /\ disk = {TmpRoot}
    /\ gitCall = NoGitCall
    /\ remote = <<>>
    /\ projectCfg = CfgMissing
    /\ fs = [p \in Locations |-> Absent]
    /\ last = NoCall
    /\ batch = NoBatch
    /\ procs = NoProcs
    /\ \E tree \in MarkerTrees, subpath \in Subpaths :
          calc = [fn |-> "discoverSkills", tree |-> tree, subpath |-> subpath,
                  done |-> FALSE, result |-> {}]

DiscoverSkills ==
    /\ calc.fn = "discoverSkills"
    /\ ~calc.done
    /\ calc' = [calc EXCEPT !.done = TRUE,
                            !.result = discoverSkills(calc.tree, calc.subpath)]
    /\ UNCHANGED <<disk, gitCall, kind, fs, remote, projectCfg, last, batch, procs>>

NextDiscover == DiscoverSkills

SpecDiscover == InitDiscover /\ [][NextDiscover]_vars

\* the marker parses to a unit
ValidMarker(m) == ~parseSkillFile(m).isNull

\* the directories from the search root down to the marker's, the root left out
LevelsBelow(m, root) == Len(m.dir) - Len(root)
NamesBelow(m, root) == { m.dir[i] : i \in (Len(root) + 1)..Len(m.dir) }

\* C22: discovery returns a unit for a valid marker exactly when the
\* marker's directory is the search root or lies at most 3 levels below it
\* and no directory below the search root on the way to it has a name that
\* starts with '.' or '_'.
C22_DepthAndHiddenDirectories ==
    (calc.fn = "discoverSkills" /\ calc.done) =>
        \A m \in calc.tree :
            ValidMarker(m) =>
                ((\E u \in calc.result : u.path = m.dir) <=>
                    /\ m.dir = calc.subpath \/ IsUnder(m.dir, calc.subpath)
                    /\ LevelsBelow(m, calc.subpath) <= 3
                    /\ NamesBelow(m, calc.subpath) \cap SkippedNames = {})

\* a marker 3 levels down is returned, one 4 levels down is not
C22_Witness ==
    /\ calc.fn = "discoverSkills"
    /\ calc.done
    /\ calc.subpath = <<>>
    /\ { m.dir : m \in calc.tree } = { <<"a", "b", "c">>, <<"a", "b", "c", "d">> }
    /\ \A m \in calc.tree : ValidMarker(m)
    /\ { u.path : u \in calc.result } = { <<"a", "b", "c">> }

\* a marker under a directory that is skipped is not returned
C22_WitnessHidden ==
    /\ calc.fn = "discoverSkills"
    /\ calc.done
    /\ calc.subpath = <<"a">>
    /\ { m.dir : m \in calc.tree } = { <<"a", "b">>, <<"a", "_i">> }
    /\ \A m \in calc.tree : ValidMarker(m)
    /\ { u.path : u \in calc.result } = { <<"a", "b">> }

\* C23 (as claimed): every unit discovery returns has a non-empty name and a
\* non-empty description, and a marker that yields no name or no description
\* is left out. The test is !data.name, and an empty list is no false value,
\* while String of it is the empty string.
C23_Claimed_NameAndDescriptionNonEmpty ==
    (calc.fn = "discoverSkills" /\ calc.done) =>
        \A u \in calc.result : u.name # "" /\ u.description # ""

\* a marker without a name or a description that is a true value, after the
\* fallback, gives no unit, and nothing is raised
C23_IncompleteMarkerLeftOut ==
    (calc.fn = "discoverSkills" /\ calc.done) =>
        \A m \in calc.tree :
            (~Truthy(FrontmatterData(m.header).name)
             \/ ~Truthy(FrontmatterData(m.header).description)) =>
                ~\E u \in calc.result : u.path = m.dir
\* ---------------------------------------------------------------- SpecManifest
\* addSkillToManifest and removeSkillFromManifest on one skills.json (and
\* addSettingsToManifest / removeSettingsFromManifest on one settings.json,
\* which follow the same code). An object of entries is the sequence of its
\* own members in insertion order.
OwnNames(entries) == { entries[i].name : i \in 1..Len(entries) }

\* the members every object inherits from Object.prototype, as far as the
\* names of the calls go
InheritedNames == {"constructor"}

\* manifest.skills[skillName] is truthy: an own entry, or an inherited member
Truthful(entries, skillName) ==
    skillName \in OwnNames(entries) \/ skillName \in InheritedNames

\* manifest.skills[skillName] = entry: an own member keeps its place, a new
\* one goes last
Assign(entries, entry) ==
    IF entry.name \in OwnNames(entries)
    THEN [i \in 1..Len(entries) |->
             IF entries[i].name = entry.name THEN entry ELSE entries[i]]
    ELSE Append(entries, entry)

\* delete manifest.skills[skillName]
Delete(entries, skillName) ==
    LET Other(e) == e.name # skillName IN SelectSeq(entries, Other)

\* addSkillToManifest(skillName, source, options): the file it leaves
addSkillToManifest(file, skillName, source, options) ==
    IF readManifest(file).threw THEN [threw |-> TRUE, file |-> file]
    ELSE [threw |-> FALSE,
          file |-> [st |-> "ok",
                    skills |->
                        IF options.isUserSkill THEN file.skills
                        ELSE Assign(file.skills,
                                    Entry(skillName, source, options.customPath)),
                    userSkills |->
                        IF options.isUserSkill
                        THEN Assign(file.userSkills,
                                    Entry(skillName, source, options.customPath))
                        ELSE file.userSkills]]

\* removeSkillFromManifest(skillName): what it returns, whether it wrote the
\* file, and the file it leaves
removeSkillFromManifest(file, skillName) ==
    IF readManifest(file).threw
    THEN [threw |-> TRUE, removed |-> FALSE, written |-> FALSE, file |-> file]
    ELSE IF readManifest(file).isNull
    THEN [threw |-> FALSE, removed |-> FALSE, written |-> FALSE, file |-> file]
    ELSE IF Truthful(file.skills, skillName) \/ Truthful(file.userSkills, skillName)
    THEN [threw |-> FALSE, removed |-> TRUE, written |-> TRUE,
          file |-> [st |-> "ok",
                    skills |-> Delete(file.skills, skillName),
                    userSkills |-> Delete(file.userSkills, skillName)]]
    ELSE [threw |-> FALSE, removed |-> FALSE, written |-> FALSE, file |-> file]

\* the names, sources and options of the calls
CallNames == {"u", "constructor"}
CallSources ==
    { <<"file:", "src", "/", "u">>, <<"github:", "o", "/", "r">>, <<"o">> }
CallOptions ==
    [isUserSkill : BOOLEAN, customPath : {NoPath, CustomPath}]

\* the number of calls of a run
MaxCalls == 3

NoManifestCall ==
    [fn |-> "none", skillName |-> "", source |-> <<>>,
     options |-> [isUserSkill |-> FALSE, customPath |-> NoPath],
     threw |-> FALSE, removed |-> FALSE, written |-> FALSE]

InitManifest ==
    /\ kind \in {"skill", "settings"}
    /\ disk = {TmpRoot}
    /\ gitCall = NoGitCall
    /\ remote = <<>>
    /\ projectCfg = CfgMissing
    /\ fs = [p \in Locations |-> Absent]
    /\ last = NoCall
    /\ batch = NoBatch
    /\ procs = NoProcs
    /\ \E file \in {ManifestMissing, ManifestNotJson,
                    [st |-> "ok", skills |-> <<>>, userSkills |-> <<>>]} :
          calc = [fn |-> "manifest", file |-> file, before |-> file,
                  call |-> NoManifestCall, calls |-> 0]

AddSkillToManifest ==
    /\ calc.fn = "manifest"
    /\ calc.calls < MaxCalls
    /\ \E skillName \in CallNames, source \in CallSources, options \in CallOptions :
          calc' = [fn |-> "manifest",
                   file |-> addSkillToManifest(calc.file, skillName, source,
                                               options).file,
                   before |-> calc.file,
                   call |-> [fn |-> "add", skillName |-> skillName,
                             source |-> source, options |-> options,
                             threw |-> addSkillToManifest(calc.file, skillName,
                                                          source, options).threw,
                             removed |-> FALSE,
                             written |-> ~addSkillToManifest(calc.file, skillName,
                                                             source, options).threw],
                   calls |-> calc.calls + 1]
    /\ UNCHANGED <<disk, gitCall, kind, fs, remote, projectCfg, last, batch, procs>>

RemoveSkillFromManifest ==
    /\ calc.fn = "manifest"
    /\ calc.calls < MaxCalls
    /\ \E skillName \in CallNames :
          calc' = [fn |-> "manifest",
                   file |-> removeSkillFromManifest(calc.file, skillName).file,
                   before |-> calc.file,
                   call |-> [fn |-> "remove", skillName |-> skillName,
                             source |-> <<>>,
                             options |-> [isUserSkill |-> FALSE,
                                          customPath |-> NoPath],
                             threw |-> removeSkillFromManifest(calc.file,
                                                               skillName).threw,
                             removed |-> removeSkillFromManifest(calc.file,
                                                                 skillName).removed,
                             written |-> removeSkillFromManifest(calc.file,
                                                                 skillName).written],
                   calls |-> calc.calls + 1]
    /\ UNCHANGED <<disk, gitCall, kind, fs, remote, projectCfg, last, batch, procs>>

NextManifest ==
    \/ AddSkillToManifest
    \/ RemoveSkillFromManifest

SpecManifest == InitManifest /\ [][NextManifest]_vars

\* the source of an entry is of local kind
LocalKind(entry) ==
    /\ ~parseSource(entry.source).threw
    /\ parseSource(entry.source).source.type = "file"

\* C24 as the specification has it: in every manifest the add and remove
\* calls can leave, every entry under userSkills (userSettings) has a source
\* of local kind.
C24_Claimed_UserEntriesAreLocal ==
    calc.fn = "manifest" =>
        \A i \in 1..Len(calc.file.userSkills) : LocalKind(calc.file.userSkills[i])

\* C24, what the code keeps: a manifest that readManifest returns has only
\* entries of local kind under userSkills; the calls themselves write an
\* entry of any source there.
C24_ReadManifestRejectsOtherKinds ==
    (calc.fn = "manifest" /\ ~readManifest(calc.file).threw) =>
        \A i \in 1..Len(calc.file.userSkills) : LocalKind(calc.file.userSkills[i])

\* the entries of an object
EntriesIn(entries) == { entries[i] : i \in 1..Len(entries) }

\* the entries of a category, and those of other names
Category(file, isUserSkill) == IF isUserSkill THEN file.userSkills ELSE file.skills
Others(entries, skillName) == { e \in EntriesIn(entries) : e.name # skillName }

\* the add call left name -> source in its category and nothing else changed
AddHeld ==
    /\ ~readManifest(calc.file).threw
    /\ ~readManifest(calc.file).isNull
    /\ \E e \in EntriesIn(Category(calc.file, calc.call.options.isUserSkill)) :
          e.name = calc.call.skillName /\ e.source = calc.call.source
    /\ Others(Category(calc.file, calc.call.options.isUserSkill),
              calc.call.skillName)
         = Others(Category(calc.before, calc.call.options.isUserSkill),
                  calc.call.skillName)
    /\ Category(calc.file, ~calc.call.options.isUserSkill)
         = Category(calc.before, ~calc.call.options.isUserSkill)

\* the remove call answered true exactly for a name the manifest had, left
\* the name in neither category, and wrote nothing when it answered false
RemoveHeld ==
    /\ calc.call.removed <=>
          calc.call.skillName \in
              OwnNames(calc.before.skills) \cup OwnNames(calc.before.userSkills)
    /\ calc.call.skillName \notin
          OwnNames(calc.file.skills) \cup OwnNames(calc.file.userSkills)
    /\ ~calc.call.removed => ~calc.call.written /\ calc.file = calc.before

\* C25 as the specification has it: after addSkillToManifest(name, source,
\* opts), readManifest holds name -> {source} in the chosen category with
\* all other entries unchanged; removeSkillFromManifest(name) returns true
\* if and only if name was in skills or userSkills, afterwards name is in
\* neither, and when it returns false the file is not written.
C25_Claimed_AddRemoveRoundTrip ==
    (calc.fn = "manifest" /\ ~calc.call.threw) =>
        /\ calc.call.fn = "add" => AddHeld
        /\ calc.call.fn = "remove" => RemoveHeld

\* C25, what the code keeps: the same, for an add whose source the category
\* accepts and for a remove of a name no object inherits.
C25_RoundTripOfAcceptedSources ==
    (calc.fn = "manifest" /\ ~calc.call.threw) =>
        /\ (/\ calc.call.fn = "add"
            /\ ~readManifest(calc.file).threw) => AddHeld
        /\ (/\ calc.call.fn = "remove"
            /\ calc.call.skillName \notin InheritedNames) => RemoveHeld
\* ---------------------------------------------------------------- SpecAgents
\* The agents an install goes to when the caller names none: the expression
\* of resolveInstallDirs and applySettings over getEffectiveConfig, with both
\* konstruct.config.json files (the project's and the one in ~/.konstruct)
\* as inputs. A config file is missing, invalid, or an object with agents and
\* an optional global.defaultAgents.
NoDefaults == [present |-> FALSE, agents |-> <<>>]
Defaults(agents) == [present |-> TRUE, agents |-> agents]
ConfigFile(st, agents, defaults) == [st |-> st, agents |-> agents, global |-> defaults]

ConfigFiles ==
    { ConfigFile("missing", <<>>, NoDefaults), ConfigFile("invalid", <<>>, NoDefaults) }
    \cup { ConfigFile("ok", a, d) :
             a \in { <<>>, <<"claude">>, <<"cursor">>, <<"cursor", "claude">> },
             d \in { NoDefaults, Defaults(<<>>), Defaults(<<"windsurf">>),
                     Defaults(<<"cursor">>) } }

\* { version: 1, agents: ['claude'] }
FallbackConfig == ConfigFile("ok", <<"claude">>, NoDefaults)

\* getEffectiveConfig(global) over the two files
effectiveConfig(global, project, g) ==
    IF ~global /\ project.st = "invalid" THEN [threw |-> TRUE, config |-> FallbackConfig]
    ELSE IF ~global /\ project.st = "ok" THEN [threw |-> FALSE, config |-> project]
    ELSE IF g.st = "invalid" THEN [threw |-> TRUE, config |-> FallbackConfig]
    ELSE IF g.st = "ok" THEN [threw |-> FALSE, config |-> g]
    ELSE [threw |-> FALSE, config |-> FallbackConfig]

\* config.agents.length > 0 ? config.agents
\*     : config.global?.defaultAgents ?? ['claude']
agentsOf(config) ==
    IF Len(config.agents) > 0 THEN config.agents
    ELSE IF config.global.present THEN config.global.agents
    ELSE <<"claude">>

\* the agents of resolveInstallDirs(options) with no agents and no custom path
resolveAgents(global, project, g) ==
    [threw |-> effectiveConfig(global, project, g).threw,
     agents |-> agentsOf(effectiveConfig(global, project, g).config)]

InitAgents ==
    /\ kind \in {"skill", "settings"}
    /\ disk = {TmpRoot}
    /\ gitCall = NoGitCall
    /\ remote = <<>>
    /\ projectCfg = CfgMissing
    /\ fs = [p \in Locations |-> Absent]
    /\ last = NoCall
    /\ batch = NoBatch
    /\ procs = NoProcs
    /\ \E project \in ConfigFiles, g \in ConfigFiles, global \in BOOLEAN :
          calc = [fn |-> "agents", project |-> project, g |-> g, global |-> global,
                  done |-> FALSE, threw |-> FALSE, agents |-> <<>>]

ResolveInstallDirs ==
    /\ calc.fn = "agents"
    /\ ~calc.done
    /\ calc' = [calc EXCEPT
                  !.done = TRUE,
                  !.threw = resolveAgents(calc.global, calc.project, calc.g).threw,
                  !.agents = resolveAgents(calc.global, calc.project, calc.g).agents]
    /\ UNCHANGED <<disk, gitCall, kind, fs, remote, projectCfg, last, batch, procs>>

NextAgents == ResolveInstallDirs

SpecAgents == InitAgents /\ [][NextAgents]_vars

\* the order the specification gives: the project config's agents if it has
\* any, otherwise the default agents of the config in ~/.konstruct, otherwise
\* claude
ClaimedAgents(project, g) ==
    IF project.st = "ok" /\ Len(project.agents) > 0 THEN project.agents
    ELSE IF g.st = "ok" /\ g.global.present THEN g.global.agents
    ELSE <<"claude">>

\* an install into the project directories resolved its agents
ResolvedForProject == calc.fn = "agents" /\ calc.done /\ ~calc.threw /\ ~calc.global

\* C26 as the specification has it: with no agents and no custom path the
\* install goes to the project config's agents if it has any, otherwise to
\* the global config's default agents, otherwise to claude.
C26_Claimed_ProjectThenGlobalDefaultsThenClaude ==
    ResolvedForProject => calc.agents = ClaimedAgents(calc.project, calc.g)

\* C26, what the code keeps: the claimed order where the project config has
\* agents, where neither file exists, and where only the global file exists
\* and its own agents list is empty; otherwise one file is chosen first (the
\* project's if it exists) and both its agents and its defaultAgents are
\* read from that file.
C26_OrderWithinTheChosenFile ==
    ResolvedForProject =>
        /\ (calc.project.st = "ok" /\ Len(calc.project.agents) > 0)
              => calc.agents = calc.project.agents
        /\ (calc.project.st = "missing" /\ calc.g.st = "missing")
              => calc.agents = <<"claude">>
        /\ (calc.project.st = "missing" /\ calc.g.st = "ok" /\ calc.g.agents = <<>>)
              => calc.agents = ClaimedAgents(calc.project, calc.g)
        /\ (calc.project.st = "ok" /\ calc.project.agents = <<>>)
              => calc.agents = IF calc.project.global.present
                               THEN calc.project.global.agents ELSE <<"claude">>
        /\ (calc.project.st = "missing" /\ calc.g.st = "ok" /\ calc.g.agents # <<>>)
              => calc.agents = calc.g.agents
\* ---------------------------------------------------------------- SpecParse
\* parseSource on its own, over locators put together from their parts: a
\* prefix, the segments between the slashes, and what follows a '#'.
RECURSIVE Slashed(_)
Slashed(segs) ==
    IF segs = <<>> THEN <<>>
    ELSE IF Len(segs) = 1 THEN segs[1]
    ELSE segs[1] \o <<"/">> \o Slashed(Tail(segs))

\* a segment: a name, a name with the .git suffix, or nothing
Segs == { <<"o">>, <<"r", ".git">>, <<>> }

\* the number of segments of a locator
MaxSegs == 4

SegLists == UNION { [1..n -> Segs] : n \in 1..MaxSegs }

\* what follows the segments: nothing, an empty ref, a ref, a ref with a
\* slash in it; and the same after a first '#' that the ref does not start at
NoMid == <<>>
Mids == { NoMid, <<"#", "x">> }
NoTail == <<>>
RefTails == { NoTail, <<"#">>, <<"#", "v1">>, <<"#", "a", "/", "b">> }
Parts ==
    { [prefix |-> p, segs |-> s, mid |-> m, tail |-> t] :
        p \in {"github:", "gitlab:", ""}, s \in SegLists, m \in Mids, t \in RefTails }
    \ { x \in [prefix : {"github:", "gitlab:", ""}, segs : SegLists,
               mid : Mids, tail : RefTails] : x.mid # NoMid /\ x.tail = NoTail }

\* the locator the parts spell
Spelled(parts) ==
    (IF parts.prefix = "" THEN <<>> ELSE <<parts.prefix>>)
    \o Slashed(parts.segs) \o parts.mid \o parts.tail

\* locators of the other forms
NoParts == [prefix |-> "other", segs |-> <<<<>>>>, mid |-> NoMid, tail |-> NoTail]
GitUrlTexts ==
    { <<"https", "://", "example.com", "/", "o", "/", "r">>,
      <<"https", "://", "example.com", "/", "o", "/", "r", ".git">>,
      <<"ssh", "://", "example.com", "/", "r", ".git">> }
OtherLocators ==
    { <<"git:">> \o u \o m \o t :
        u \in GitUrlTexts, m \in Mids, t \in RefTails \ {NoTail} }
    \cup { <<"git:">> \o u : u \in GitUrlTexts }
    \cup { <<"file:", "src", "/", "u">>, <<"file:", "/", "abs">>,
           <<"https", "://", "example.com", "/", "o", "/", "r">>,
           <<"o", "://">>, <<>> }

NoParse == ParseError("")

InitParse ==
    /\ kind = "skill"
    /\ disk = {TmpRoot}
    /\ gitCall = NoGitCall
    /\ remote = <<>>
    /\ projectCfg = CfgMissing
    /\ fs = [p \in Locations |-> Absent]
    /\ last = NoCall
    /\ batch = NoBatch
    /\ procs = NoProcs
    /\ \/ \E parts \in Parts :
             calc = [fn |-> "parse", input |-> Spelled(parts), parts |-> parts,
                     st |-> "given", result |-> NoParse, prefixed |-> NoParse,
                     serialized |-> <<>>, reparsed |-> NoParse]
       \/ \E input \in OtherLocators :
             calc = [fn |-> "parse", input |-> input, parts |-> NoParts,
                     st |-> "given", result |-> NoParse, prefixed |-> NoParse,
                     serialized |-> <<>>, reparsed |-> NoParse]

ParseLocator ==
    /\ calc.fn = "parse"
    /\ calc.st = "given"
    /\ calc' = [calc EXCEPT !.st = "parsed", !.result = parseSource(calc.input)]
    /\ UNCHANGED <<disk, gitCall, kind, fs, remote, projectCfg, last, batch, procs>>

\* the text after the last '#' of the parts, and the segments before it
ClaimedRef(parts) ==
    IF parts.tail = NoTail THEN NoRef ELSE Concat(Tail(parts.tail))
ClaimedSegs(parts) ==
    [i \in 1..Len(parts.segs) |->
        IF i = Len(parts.segs) THEN parts.segs[i] \o parts.mid ELSE parts.segs[i]]
ClaimedRepo(seg) ==
    IF seg # <<>> /\ seg[Len(seg)] = ".git" THEN Concat(SubSeq(seg, 1, Len(seg) - 1))
    ELSE Concat(seg)
ClaimedHost(parts) == IF parts.prefix = "gitlab:" THEN "gitlab.com" ELSE "github.com"
ClaimedType(parts) == IF parts.prefix = "gitlab:" THEN "gitlab" ELSE "github"

\* a github: or gitlab: locator has been parsed
HostedParsed ==
    /\ calc.fn = "parse"
    /\ calc.st # "given"
    /\ calc.parts.prefix \in {"github:", "gitlab:"}

\* C27: for github:<owner>/<repo>[/<sub...>][#<ref>] (and gitlab: with
\* gitlab.com) parseSource returns url https://github.com/<owner>/<repo>.git
\* with a trailing .git of repo stripped first, subpath the remaining
\* segments joined by '/' (absent if none) and ref the text after the last
\* '#' (absent if empty); fewer than two segments fail with the 'expected at
\* least owner/repo' error.
C27_HostedLocatorParsesToItsParts ==
    HostedParsed =>
        IF Len(calc.parts.segs) < 2
        THEN calc.result.threw /\ calc.result.error = "expected at least owner/repo"
        ELSE /\ ~calc.result.threw
             /\ calc.result.source.type = ClaimedType(calc.parts)
             /\ calc.result.source.url =
                   [proto |-> "https://", host |-> ClaimedHost(calc.parts),
                    path |-> Concat(ClaimedSegs(calc.parts)[1]) \o "/"
                             \o ClaimedRepo(ClaimedSegs(calc.parts)[2]) \o ".git"]
             /\ calc.result.source.subpath =
                   [i \in 1..(Len(calc.parts.segs) - 2) |->
                       Concat(ClaimedSegs(calc.parts)[i + 2])]
             /\ calc.result.source.ref = ClaimedRef(calc.parts)

\* a locator with a repo ending in .git, two further segments and a ref has
\* been parsed; and one with the owner alone
C27_Witness ==
    /\ HostedParsed
    /\ calc.parts.segs = <<<<"o">>, <<"r", ".git">>, <<"o">>, <<"o">>>>
    /\ calc.parts.tail = <<"#", "v1">>
    /\ calc.result.source.subpath = <<"o", "o">>
    /\ calc.result.source.ref = "v1"
C27_WitnessTooShort ==
    /\ HostedParsed
    /\ calc.parts.segs = <<<<"o">>>>
    /\ calc.result.threw

\* the same text behind the github: prefix, parsed for comparison
ParsePrefixed ==
    /\ calc.fn = "parse"
    /\ calc.st = "parsed"
    /\ calc' = [calc EXCEPT !.st = "prefixed",
                            !.prefixed = parseSource(<<"github:">> \o calc.input)]
    /\ UNCHANGED <<disk, gitCall, kind, fs, remote, projectCfg, last, batch, procs>>

\* the locator starts with none of the recognised prefixes
Unprefixed(input) ==
    input = <<>> \/ input[1] \notin {"github:", "gitlab:", "git:", "file:"}

\* C28: an unprefixed string that contains '/' and no '://' parses as the
\* same string behind 'github:' does, to the same reference or the same
\* error; every unprefixed string with no '/' or with '://' fails with the
\* unknown-source-format error.
C28_BareLocatorIsGitHubShorthand ==
    (calc.fn = "parse" /\ calc.st = "prefixed" /\ Unprefixed(calc.input)) =>
        IF Occurs(calc.input, "/") # {} /\ Occurs(calc.input, "://") = {}
        THEN calc.result = calc.prefixed
        ELSE calc.result.threw /\ calc.result.error = "Unknown source format"

\* a bare owner/repo/sub#ref has been parsed both ways; a bare word and a
\* bare URL have been refused
C28_Witness ==
    /\ calc.fn = "parse"
    /\ calc.st = "prefixed"
    /\ calc.input = <<"o", "/", "r", ".git", "/", "o", "#", "v1">>
    /\ ~calc.result.threw
    /\ calc.result.source.type = "github"
C28_WitnessWord ==
    /\ calc.fn = "parse"
    /\ calc.st = "prefixed"
    /\ calc.input = <<"o">>
    /\ calc.result.threw
    /\ calc.prefixed.threw
C28_WitnessUrl ==
    /\ calc.fn = "parse"
    /\ calc.st = "prefixed"
    /\ calc.input = <<"https", "://", "example.com", "/", "o", "/", "r">>
    /\ calc.result.threw
    /\ calc.result.error = "Unknown source format"

\* -------------------------------------------------------- serializeSource
\* The strings of a reference, spelled again as lexemes: the segments and the
\* URLs that the locators of this specification can give.
SegTexts ==
    { s \o mid : s \in Segs, mid \in Mids }
    \cup { StripGit(s \o mid) : s \in Segs, mid \in Mids }
UrlTexts ==
    { <<"https", "://", h, "/">> \o owner \o <<"/">> \o repo \o <<".git">> :
        h \in {"github.com", "gitlab.com"}, owner \in SegTexts, repo \in SegTexts }
    \cup { u \o mid : u \in GitUrlTexts, mid \in Mids }
    \cup { u \o mid \o <<".git">> : u \in GitUrlTexts, mid \in Mids }
SpellSegment(str) == CHOOSE ts \in SegTexts : Concat(ts) = str
SpellUrl(url) == CHOOSE ts \in UrlTexts : UrlOf(ts) = url

\* parsed.url.match(/<host>\/([^/]+)\/([^/]+?)(?:\.git)?$/): the text after
\* "<host>/" is an owner and a repo, neither empty, and nothing more; the
\* repo is matched without a final .git unless that leaves it empty
HostMatch(text, host) ==
    IF Occurs(text, host) = {} \/ FirstOf(Occurs(text, host)) + 1 > Len(text)
    THEN [matched |-> FALSE, owner |-> <<>>, repo |-> <<>>]
    ELSE [matched |->
              /\ text[FirstOf(Occurs(text, host)) + 1] = "/"
              /\ Len(split(SubSeq(text, FirstOf(Occurs(text, host)) + 2, Len(text)))) = 2
              /\ split(SubSeq(text, FirstOf(Occurs(text, host)) + 2, Len(text)))[1] # <<>>
              /\ split(SubSeq(text, FirstOf(Occurs(text, host)) + 2, Len(text)))[2] # <<>>,
          owner |-> split(SubSeq(text, FirstOf(Occurs(text, host)) + 2, Len(text)))[1],
          repo |->
              IF Len(split(SubSeq(text, FirstOf(Occurs(text, host)) + 2, Len(text)))) < 2
              THEN <<>>
              ELSE IF StripGit(split(SubSeq(text, FirstOf(Occurs(text, host)) + 2,
                                            Len(text)))[2]) = <<>>
              THEN split(SubSeq(text, FirstOf(Occurs(text, host)) + 2, Len(text)))[2]
              ELSE StripGit(split(SubSeq(text, FirstOf(Occurs(text, host)) + 2,
                                         Len(text)))[2])]

\* parsed.ref ? `#${parsed.ref}` : ''
RefText(parsed) == IF parsed.ref # NoRef THEN <<"#", parsed.ref>> ELSE <<>>

\* serializeSource(parsed, repoPath)
serializeSource(parsed, repoPath) ==
    IF parsed.type = "github" /\ HostMatch(SpellUrl(parsed.url), "github.com").matched
    THEN <<"github:">> \o HostMatch(SpellUrl(parsed.url), "github.com").owner
         \o <<"/">> \o HostMatch(SpellUrl(parsed.url), "github.com").repo
         \o <<"/">> \o repoPath \o RefText(parsed)
    ELSE IF parsed.type = "gitlab" /\ HostMatch(SpellUrl(parsed.url), "gitlab.com").matched
    THEN <<"gitlab:">> \o HostMatch(SpellUrl(parsed.url), "gitlab.com").owner
         \o <<"/">> \o HostMatch(SpellUrl(parsed.url), "gitlab.com").repo
         \o <<"/">> \o repoPath \o RefText(parsed)
    ELSE <<"git:">> \o SpellUrl(parsed.url) \o RefText(parsed)

\* the reference's own subpath as the repoPath string: its segments joined
\* by '/', the empty string for an absent subpath
OwnSubpath(parsed) ==
    Slashed([i \in 1..Len(parsed.subpath) |-> SpellSegment(parsed.subpath[i])])

\* serialize the reference of a github:, gitlab: or git: locator with its own
\* subpath, and parse the result
SerializeSource ==
    /\ calc.fn = "parse"
    /\ calc.st = "parsed"
    /\ calc.input # <<>>
    /\ calc.input[1] \in {"github:", "gitlab:", "git:"}
    /\ ~calc.result.threw
    /\ calc' = [calc EXCEPT
                  !.st = "serialized",
                  !.serialized = serializeSource(calc.result.source,
                                                 OwnSubpath(calc.result.source)),
                  !.reparsed = parseSource(serializeSource(calc.result.source,
                                                OwnSubpath(calc.result.source)))]
    /\ UNCHANGED <<disk, gitCall, kind, fs, remote, projectCfg, last, batch, procs>>

\* C29 as the specification has it: the reference of every github:, gitlab:
\* or git: locator, serialized with its own subpath and parsed again, is
\* the same reference in kind, url, ref and subpath.
C29_Claimed_SerializeThenParseIsIdentity ==
    (calc.fn = "parse" /\ calc.st = "serialized") =>
        /\ ~calc.reparsed.threw
        /\ calc.reparsed.source = calc.result.source

\* the reference has a subpath with no empty segment, an owner and no '#'
\* before its ref
PlainHosted(parts) ==
    /\ parts.prefix \in {"github:", "gitlab:"}
    /\ Len(parts.segs) > 2
    /\ parts.segs[1] # <<>>
    /\ \A i \in 3..Len(parts.segs) : parts.segs[i] # <<>>
    /\ parts.mid = NoMid

\* C29, what the code keeps: the round trip of a github: or gitlab:
\* reference that has an owner, a subpath with no empty segment and no '#'
\* before its ref, and of a git: reference whose URL has no '#'.
C29_RoundTripOfPlainReferences ==
    (calc.fn = "parse" /\ calc.st = "serialized") =>
        /\ PlainHosted(calc.parts) =>
              ~calc.reparsed.threw /\ calc.reparsed.source = calc.result.source
        /\ (calc.input[1] = "git:" /\ Occurs(SpellUrl(calc.result.source.url), "#") = {})
              => ~calc.reparsed.threw /\ calc.reparsed.source = calc.result.source

NextParse ==
    \/ ParseLocator
    \/ ParsePrefixed
    \/ SerializeSource

SpecParse == InitParse /\ [][NextParse]_vars
\* ---------------------------------------------------------------- SpecLocal
\* One install from a file: source (installUserSkill, installUserSettings),
\* the source being a directory anywhere on disk: beside the agent
\* directories or at one of the places an install writes to.
LocalSourcePaths ==
    { LocalPath, TargetPath(AgentDir("claude"), "u"), TargetPath(AgentDir("cursor"), "v") }

\* the directories that exist before the install, each holding a unit
LocalBefore(k) ==
    { [p \in Locations |->
         IF p \in S THEN Present(UnitFiles(k, "p1", "")) ELSE Absent] :
      S \in SUBSET (Locations \ {MissingPath, ClaudeSettingsFile}) }

InitLocal ==
    /\ kind \in {"skill", "settings"}
    /\ disk = {TmpRoot}
    /\ gitCall = NoGitCall
    /\ remote = <<>>
    /\ projectCfg \in {CfgMissing, CfgOk(<<"claude">>), CfgOk(<<"cursor", "claude">>)}
    /\ fs \in LocalBefore(kind)
    /\ last = NoCall
    /\ batch = NoBatch
    /\ procs = NoProcs
    /\ \E path \in LocalSourcePaths, name \in ManifestNames, options \in Options(kind) :
          calc = [fn |-> "installUser", source |-> FileSource(path), name |-> name,
                  options |-> options, before |-> fs, done |-> FALSE,
                  report |-> Rejected(disk, fs, "", {}).report]

\* the install has returned or thrown, leaving out
InstalledLocal(out) ==
    /\ fs' = out.fs
    /\ disk' = out.disk
    /\ calc' = [calc EXCEPT !.done = TRUE, !.report = out.report]

InstallLocal ==
    /\ calc.fn = "installUser"
    /\ ~calc.done
    /\ \E env \in LocalEnvs :
          InstalledLocal(installUser(disk, fs, calc.source, calc.name,
                                     calc.options, env))
    /\ UNCHANGED <<gitCall, kind, remote, projectCfg, last, batch, procs>>

NextLocal == InstallLocal

SpecLocal == InitLocal /\ [][NextLocal]_vars

\* an install from an existing local source has ended
LocalInstallEnded ==
    /\ calc.fn = "installUser"
    /\ calc.done
    /\ calc.before[Resolve(calc.source.url)].present

\* C30 as the specification has it: an install from a file: source leaves
\* the source directory as it was, wherever the source lies, also at
\* target/unitName.
C30_Claimed_SourceDirectoryUntouched ==
    LocalInstallEnded =>
        fs[Resolve(calc.source.url)] = calc.before[Resolve(calc.source.url)]

\* C30, what the code keeps: the source directory is as it was unless it is
\* one of the paths the install removed or wrote.
C30_SourceOutsideTargetsUntouched ==
    (LocalInstallEnded /\ Resolve(calc.source.url) \notin calc.report.touched) =>
        fs[Resolve(calc.source.url)] = calc.before[Resolve(calc.source.url)]

\* the source at target/unitName is gone after the install
C30_SourceAtTargetRemoved ==
    (/\ LocalInstallEnded
     /\ Resolve(calc.source.url) \in calc.report.touched) =>
        /\ ~fs[Resolve(calc.source.url)].present
        /\ ~calc.report.success
\* ---------------------------------------------------------------- C31
\* an install call is being made and comes back with success = false
InstallFailing ==
    /\ last = NoCall
    /\ last'.op \in InstallOps
    /\ ~last'.report.threw
    /\ ~last'.report.success

\* C31 as the specification has it: if an install returns success = false,
\* every target's previously installed copy of the unit (target/unitName)
\* still exists with the content it had before the call.
C31_Claimed_FailedInstallKeepsInstalledCopy ==
    [][InstallFailing =>
           \A p \in PathSet(TargetsOf(last')) :
              fs[p].present => fs'[p] = fs[p]]_vars

\* C31, what the code keeps: an install that fails before it comes to copy
\* (retrieval, discovery, selection, a missing local source) leaves every
\* target as it was; one that fails in the copy loop has removed the target
\* it failed at and has overwritten the targets before it.
C31_FailureBeforeCopyKeepsTargets ==
    [][(InstallFailing /\ last'.report.error.kind # "IOError") => fs' = fs]_vars

\* ---------------------------------------------------------------- C32
\* an update turn over a skill has ended with one of the three good statuses
UpdateTurnDone ==
    /\ last.op = "update"
    /\ kind = "skill"
    /\ last.report.status \in {"up-to-date", "updated", "installed"}

\* the directory holds a copy with the fingerprint of the upstream unit
MatchesUpstream(p) ==
    /\ fs[p].present
    /\ \E g \in GitStamps :
          EmptyDiff(FingerprintDiff(fs[p].files, UpstreamFiles(last, g)))

\* C32 as the specification has it: after update finishes a unit with status
\* 'up-to-date', 'updated' or 'installed', the copy of the unit in every
\* configured target directory, not only the first, has the fingerprint of
\* the upstream unit.
C32_Claimed_EveryTargetMatchesUpstream ==
    UpdateTurnDone => \A p \in PathSet(TargetsOf(last)) : MatchesUpstream(p)

\* C32, what the code keeps: the first target has the fingerprint of the
\* upstream unit, and after 'updated' or 'installed' every target has; an
\* 'up-to-date' is decided on the first target alone and leaves the others
\* as they are.
C32_FirstTargetMatchesUpstream ==
    UpdateTurnDone =>
        /\ MatchesUpstream(PrimaryTarget(last))
        /\ last.report.status \in {"updated", "installed"} =>
              \A p \in PathSet(TargetsOf(last)) : MatchesUpstream(p)

\* ---------------------------------------------------------------- C33
\* an update turn for the settings unit that the install just before it put
\* in place with the merge or replace strategy, upstream as the install saw it
UpdateAfterFileInstall ==
    /\ kind = "settings"
    /\ last.op = "installGit"
    /\ last.report.success
    /\ last.report.strategy \in {"merge", "replace"}
    /\ last'.op = "update"
    /\ last'.name = last.name
    /\ last'.report.status # "failed"

\* C33 as the specification has it: for a settings unit installed with the
\* merge or replace strategy, the update that follows with upstream unchanged
\* reports the unit up-to-date and writes to no target file or directory.
C33_Claimed_UpdateAfterMergeIsUpToDate ==
    [][UpdateAfterFileInstall =>
           /\ last'.report.status = "up-to-date"
           /\ last'.report.touched = {}
           /\ fs' = fs]_vars

\* C33, what the code does: the check looks for the unit directory under the
\* first install directory, which a merge or replace into the agents'
\* settings files never makes; while that directory is absent the update turn
\* is never up-to-date, it installs the unit again.
C33_UpdateAfterMergeInstallsAgain ==
    [][(/\ UpdateAfterFileInstall
        /\ ~fs[PrimaryTarget(last)].present)
       => last'.report.status \in {"installed", "rejected"}]_vars

\* ---------------------------------------------------------------- C34
\* an install returned success = true
InstallSucceeded ==
    /\ last.op \in InstallOps
    /\ ~last.report.threw
    /\ last.report.success

\* C34 as the specification has it: a successful install has a non-empty
\* paths list and the unit is present at every target afterwards; an install
\* that wrote nothing is never reported as a success. installGitSettings and
\* installUserSettings return success = true with the list applySettings
\* returns whenever applySettings returns; stated of applySettings under the
\* merge and replace strategies.
C34_Claimed_SuccessMeansWritten ==
    (calc.fn = "applySettings" /\ calc.applied > 0 /\ calc.ok) =>
        /\ calc.paths # <<>>
        /\ \A p \in PathSet(calc.paths) : fs[p].present

\* C34, what the code keeps: a successful install that copied (a skill, or
\* settings under the copy strategy or its fallback) lists every resolved
\* target and the unit is present at each.
C34_SuccessfulCopyIsPresentEverywhere ==
    (/\ InstallSucceeded
     /\ kind = "settings" => (last.report.strategy = "copy" \/ NoFileAgents))
    => /\ last.report.paths = TargetsOf(last)
       /\ last.report.paths # <<>>
       /\ \A p \in PathSet(TargetsOf(last)) : fs[p].present

\* ---------------------------------------------------------------- C35
\* what a successful settings install did to the targets: it copied the
\* package into the unit directories, or it wrote agents' settings files
CopiedDirectories == last.report.touched \subseteq PathSet(TargetsOf(last))
WroteSettingsFiles == last.report.touched \subseteq {ClaudeSettingsFile}

\* C35 as the specification has it: the strategy a successful settings
\* install reports is the one whose semantics were applied: copy when
\* directories were copied, merge or replace when the agents' settings files
\* were merged into or overwritten.
C35_Claimed_ReportedStrategyIsApplied ==
    (InstallSucceeded /\ kind = "settings") =>
        /\ last.report.strategy \in {"copy", "merge", "replace"}
        /\ last.report.strategy = "copy" => CopiedDirectories
        /\ last.report.strategy \in {"merge", "replace"} => WroteSettingsFiles

\* C35, what the code keeps: the same whenever a configured agent has a
\* settings file; with none, merge and replace fall back to the copy and the
\* result still names merge or replace.
C35_ReportedStrategyButForFallback ==
    (InstallSucceeded /\ kind = "settings") =>
        /\ last.report.strategy \in {"copy", "merge", "replace"}
        /\ last.report.strategy = "copy" => CopiedDirectories
        /\ (last.report.strategy \in {"merge", "replace"} /\ ~NoFileAgents)
              => WroteSettingsFiles
        /\ (last.report.strategy \in {"merge", "replace"} /\ NoFileAgents)
              => CopiedDirectories /\ last.report.touched # {}

\* ---------------------------------------------------------------- C36
\* an install that was given an install-path override has returned
InstalledWithPath ==
    /\ last.op \in InstallOps
    /\ ~last.report.threw
    /\ last.opts.customPath # NoPath

\* C36 as the specification has it: when an install-path override is given,
\* every file the install writes lies under that path, for skills and for
\* settings with any strategy.
C36_Claimed_WritesOnlyUnderCustomPath ==
    InstalledWithPath =>
        \A p \in last.report.touched : StartsWith(p, last.opts.customPath)

\* C36, what the code keeps: the same for skills and for settings that are
\* copied; a merge or replace writes the configured agents' settings files
\* wherever the override points.
C36_CopyWritesOnlyUnderCustomPath ==
    (/\ InstalledWithPath
     /\ kind = "settings" =>
           \/ EffectiveStrategy(last.opts, PackageOf(last)) = "copy"
           \/ NoFileAgents
           \/ ~CameToApply(last))
    => \A p \in last.report.touched : StartsWith(p, last.opts.customPath)

\* ---------------------------------------------------------------- C38
\* C38: checkSkillForUpdates / checkSettingsForUpdates creates, modifies and
\* deletes nothing under any target directory, nor anywhere else in the file
\* system outside its temp directory, whatever it returns or throws; the
\* manifest is not among the things it is given or reads.
C38_CheckLeavesTargetsAlone ==
    [][last'.op = "check" => fs' = fs]_vars

\* a check that found the installed copy behind upstream
C38_Witness ==
    /\ last.op = "check"
    /\ ~last.report.threw
    /\ ~last.report.isNull
    /\ ~last.report.diff.upToDate
    /\ fs[PrimaryTarget(last)].present

\* a check that threw with the unit installed
C38_WitnessThrew ==
    /\ last.op = "check"
    /\ last.report.threw
    /\ last.report.error.kind \in {"GitCloneError", "WalkError"}
    /\ \E p \in PathSet(TargetsOf(last)) : fs[p].present

\* ---------------------------------------------------------------- C39
\* C39 as the specification has it: merge is idempotent; for all JSON objects
\* t and s, deepMerge(deepMerge(t, s), s) = deepMerge(t, s).
C39_Claimed_DeepMergeIdempotent ==
    (calc.fn = "deepMerge" /\ calc.done) =>
        deepMerge(calc.result, calc.source) = calc.result

\* C39, what the code keeps: an array of the source that meets no array in
\* the target is taken as it is, repeated items included, and loses them
\* only when it is merged with itself the second time; from the second
\* application on the result no longer changes.
C39_IdempotentFromTheSecondMerge ==
    (calc.fn = "deepMerge" /\ calc.done) =>
        deepMerge(deepMerge(calc.result, calc.source), calc.source)
            = deepMerge(calc.result, calc.source)
\* ---------------------------------------------------------------- SpecRemove
\* The add command with a file: source and the remove command
\* (commands/add.tsx, commands/remove.tsx), project scope, over one skills.json
\* and the agents' skill directories. calc.file is skills.json.

\* the locator of the local skill, and the name the add command derives
LocalLocator == <<"file:", "src", "/", "u">>

\* what the command did: the manifest and file system it leaves
Commanded(file, f, status, paths) ==
    [file |-> file, fs |-> f, status |-> status, paths |-> paths]

\* startInstall of the add command for a file: source: installUserSkill, and
\* on success addSkillToManifest with the path that was given
addUserSkill(file, f, name, options, inst) ==
    IF inst.report.threw THEN Commanded(file, inst.fs, "rejected", <<>>)
    ELSE IF ~inst.report.success THEN Commanded(file, inst.fs, "error", <<>>)
    ELSE IF addSkillToManifest(file, name, LocalLocator,
                               [isUserSkill |-> TRUE,
                                customPath |-> options.customPath]).threw
    THEN Commanded(file, inst.fs, "rejected", inst.report.paths)
    ELSE Commanded(addSkillToManifest(file, name, LocalLocator,
                                      [isUserSkill |-> TRUE,
                                       customPath |-> options.customPath]).file,
                   inst.fs, "success", inst.report.paths)

\* rm(join(dir, name), {recursive, force}) for every dir, errors swallowed
RECURSIVE rmAll(_, _, _, _)
rmAll(f, dirs, name, i) ==
    IF i > Len(dirs) THEN f
    ELSE rmAll([f EXCEPT ![TargetPath(dirs[i], name)] = Absent], dirs, name, i + 1)

\* the directories the remove command clears: those of the agents of the
\* project config, of claude when there is none
removeDirs ==
    getAgentDirs(IF readConfig(FALSE).cfg.st = "ok"
                    /\ Len(readConfig(FALSE).cfg.agents) > 0
                 THEN readConfig(FALSE).cfg.agents
                 ELSE <<"claude">>)

\* the async function of RemoveApp for one name
removeSkill(file, f, name) ==
    IF readManifest(file).threw THEN Commanded(file, f, "rejected", <<>>)
    ELSE IF readManifest(file).isNull THEN Commanded(file, f, "fatal", <<>>)
    ELSE IF readConfig(FALSE).threw THEN Commanded(file, f, "rejected", <<>>)
    ELSE IF ~(Truthful(file.skills, name) \/ Truthful(file.userSkills, name))
    THEN Commanded(file, f, "error", <<>>)
    ELSE Commanded(removeSkillFromManifest(file, name).file,
                   rmAll(f, removeDirs, name, 1), "success", <<>>)

SkillOptions == { [customPath |-> cp, ssh |-> FALSE, strategy |-> ""] :
                    cp \in {NoPath, CustomPath} }

InitRemove ==
    /\ kind = "skill"
    /\ disk = {TmpRoot}
    /\ gitCall = NoGitCall
    /\ remote = <<>>
    /\ projectCfg \in {CfgMissing, CfgInvalid, CfgOk(<<"claude">>),
                       CfgOk(<<"claude", "cursor">>)}
    /\ fs = [p \in Locations |->
               IF p = LocalPath THEN Present(UnitFiles(kind, "p1", "")) ELSE Absent]
    /\ last = NoCall
    /\ batch = NoBatch
    /\ procs = NoProcs
    /\ \E file \in {ManifestMissing,
                    [st |-> "ok", skills |-> <<>>, userSkills |-> <<>>],
                    [st |-> "ok", skills |-> <<GitEntryV>>, userSkills |-> <<>>]} :
          calc = [fn |-> "remove", file |-> file]

\* the command has ended: what it leaves
CommandEnded(op, name, options, o) ==
    /\ fs' = o.fs
    /\ calc' = [calc EXCEPT !.file = o.file]
    /\ last' = [op |-> op, name |-> name, opts |-> options,
                status |-> o.status, paths |-> o.paths]
    /\ UNCHANGED <<disk, gitCall, kind, remote, projectCfg, batch, procs>>

\* konstruct add file:src/u [--path p], in a directory that has a skills.json
AddApp ==
    \E options \in SkillOptions, env \in LocalEnvs :
        /\ calc.fn = "remove"
        /\ ~readManifest(calc.file).threw
        /\ ~readManifest(calc.file).isNull
        /\ CommandEnded("add", "u", options,
                        addUserSkill(calc.file, fs, "u", options,
                                     installUserSkill(disk, fs, FileSource(LocalPath),
                                                      "u", options, env)))

\* konstruct remove name
RemoveApp ==
    \E name \in ManifestNames :
        /\ calc.fn = "remove"
        /\ CommandEnded("remove", name, [customPath |-> NoPath, ssh |-> FALSE,
                                         strategy |-> ""],
                        removeSkill(calc.file, fs, name))

NextRemove ==
    \/ AddApp
    \/ RemoveApp

SpecRemove == InitRemove /\ [][NextRemove]_vars

\* ---------------------------------------------------------------- C37
\* the remove command runs for the unit the add command has just installed
RemovedAfterAdd ==
    /\ calc.fn = "remove"
    /\ last.op = "add"
    /\ last.status = "success"
    /\ last'.op = "remove"
    /\ last'.name = last.name

\* the manifest has no entry of that name
NotInManifest(file, name) ==
    name \notin OwnNames(file.skills) \cup OwnNames(file.userSkills)

\* C37 as the specification has it: after a unit is installed and then
\* removed with the remove command, same scope, config and manifest entry,
\* the unit is absent from the manifest and no directory the install wrote
\* to still contains the unit.
C37_Claimed_RemoveUndoesInstall ==
    [][RemovedAfterAdd =>
           /\ NotInManifest(calc'.file, last.name)
           /\ \A p \in PathSet(last.paths) : ~fs'[p].present]_vars

\* C37, what the code keeps: the same for a unit installed without an
\* install path, the project config being readable; the remove command never
\* looks at the path of the entry, and rejects on a config it cannot read.
C37_RemoveUndoesInstallIntoAgentDirs ==
    [][(/\ RemovedAfterAdd
        /\ last.opts.customPath = NoPath)
       => /\ last'.status = "success"
          /\ NotInManifest(calc'.file, last.name)
          /\ \A p \in PathSet(last.paths) : ~fs'[p].present]_vars

====
